---- MODULE Spec2Model ----
(***************************************************************************)
(* A model of the graph-rag repository: the DRIFT retriever and its answer *)
(* aggregation (rag/retrievers/drift.py, rag/utils/retrievers.py,          *)
(* rag/tools/search.py), the entity/relationship extraction with its id    *)
(* reassignment (ingestion/ingestors/property_graph.py,                    *)
(* ingestion/extractors/graph_extractor.py) and the ontology resolution    *)
(* against the knowledge-base registry (common/services/knowledge_base.py).*)
(***************************************************************************)
EXTENDS Integers, Sequences, FiniteSets, TLC

(***************************************************************************)
(* Bounds of the model.                                                    *)
(***************************************************************************)
\* longest follow-up list the language model returns (general searches)
MaxReturned == 2
\* longest follow-up list the language model returns (wide searches)
MaxReturnedWide == 13
\* largest answer tree explored by the general searches
MaxTreeNodes == 3

\* answers the language model gives: empty, whitespace only, and real ones
Answers == {"", " ", "A", "B", "C"}
\* the answer used by the wide searches
WideAnswers == {"A"}
\* the user's query
UserQueries == {"q0"}
\* the follow-up questions the language model invents
Questions == {"q1", "q2"}
WideQuestions == {"q1"}
\* the max_depth values a caller configures, next to leaving it out
ConfiguredDepths == {0, 1, 2}
\* hypothetical passages returned to expand_query
HydeContents == {"-hyde"}
\* the community summaries the vector store holds
Communities == {"c1"}

\* entities the language model returns during one extraction run
MaxReturnedEntities == 2
\* triplets the language model returns during one extraction run
MaxReturnedTriplets == 2

\* the chunks of the file, in order
Documents == <<"d1", "d2">>
\* ids the language model gives its entities
LMEntityIds == {"e1", "e2"}
\* the ontology of the runs: labels and relationship types
EntityLabels == {"Driver", "Team"}
RelationshipLabels == {"works_for"}
\* property maps the language model returns
PropertyMaps == {[name |-> "Senna"], [name |-> "Ayrton Senna", wins |-> "41"]}
\* a chunk id the language model makes up
MadeUpDocId == "d0"

\* ingestion requests the API receives
MaxRuns == 2

\* the knowledge bases of the requests
KbIds == {"kb1", "kb2"}
\* the files of one request
Files == <<"f1", "f2">>
\* the ontologies a request carries or the language model derives
Ontologies ==
    {[entity_labels |-> <<"Driver", "Team">>,
      relationship_rules |-> <<<<"Driver", "works_for", "Team">>>>],
     [entity_labels |-> <<"Driver">>, relationship_rules |-> <<>>]}

\* calls made on the KnowledgeBaseService
MaxServiceCalls == 3
\* the names and descriptions of the knowledge bases the service is called with
KbTexts == {<<"kb", <<>>>>, <<"renamed", <<"about">>>>}
\* an id no knowledge base is stored under
NoKbId == "kb0"

\* the knowledge bases ingest calls of one ingestor are made for
GraphKbs == {"kb1", "kb2"}

\* ingest calls made one after the other against one graph store
MaxIngests == 2
\* ingest calls made by background tasks that run side by side
MaxOverlappingIngests == 3

\* the files handed to the ingestors and, per file, the ids of its chunks
GraphFiles == {"f1", "f2"}
FileDocuments == [f1 |-> <<"c1", "c2">>, f2 |-> <<"c3">>]
\* the raw community ids the detection engine writes
RawCommunityIds == {"0", "1"}
\* similarity scores in hundredths: at the threshold and above it
Scores == {75, 80}
\* the same with a second score above the threshold
TwoScoresAbove == {75, 80, 90}
\* the knowledge base of the ingest calls against the graph store
GraphKb == "kb1"

(***************************************************************************)
(* Program constants.                                                      *)
(***************************************************************************)
\* config.get("max_depth", 3)
DefaultMaxDepth == 3
\* the configuration main.py and the agent context pass
ConfiguredTopK == 5
ConfiguredFollowUps == 3
\* lexical_threshold: float = 0.75, in hundredths
LexicalThreshold == 75
\* similarity_search_with_score_by_vector(embedding, 3, ...)
SimilarityK == 3

VARIABLES
    \* ---- rag/tools/search.py: one search_knowledge_base tool call
    toolPc,      \* "idle", "searching", "collect", "done"
    config,      \* the DriftConfig of the call
    stack,       \* the drift_search activation records, innermost last
    nodes,       \* the Node objects built so far, in creation order
    calls,       \* per node: depth and follow-ups of the call that built it
    root,        \* index of the Node drift_search returned, 0 before
    facts,       \* what collect_answers returned
    output       \* what _format_facts returned

driftVars == <<toolPc, config, stack, nodes, calls, root, facts, output>>

VARIABLES
    \* ---- one extraction run: PropertyGraphIngestor.ingest (lines 85-122)
    \* ---- or GraphExtractor.extract
    extractor,       \* the class whose method runs
    exPc,            \* "idle", "call", "merge", "reassign", "done"
    docIdx,          \* number of documents fully processed
    extraction,      \* the parsed EntityRelationships of the current document
    entIdx,          \* number of entities of `extraction` merged so far
    lmEntities,      \* number of entities the language model returned for earlier documents
    entity_storage,  \* dict id -> Entity, as the list of its values in insertion order
    triplets,        \* the accumulated triplets
    uuidCount,       \* number of uuid4() values drawn so far
    id_map,          \* the id map _reassign_entity_ids built
    new_entities,    \* the entities the run returns
    new_triplets     \* the triplets the run returns

extractVars == <<extractor, exPc, docIdx, extraction, entIdx, lmEntities, entity_storage,
                 triplets, uuidCount, id_map, new_entities, new_triplets>>

VARIABLES
    \* ---- the knowledge-base registry and the ingestion runs of the API
    kbNodes,        \* the KnowledgeBase nodes of the graph, in creation order
    clock,          \* number of datetime() values the graph has produced
    runs,           \* the background ingestion runs, one per request
    ontologyCalls   \* per knowledge base id: _extract_ontology calls made so far

kbVars == <<kbNodes, clock, runs, ontologyCalls>>

VARIABLES
    \* ---- the calls made on the KnowledgeBaseService
    served,         \* number of calls made so far
    lastCall        \* the last call: method, argument, the nodes before it, result

serviceVars == <<served, lastCall>>

VARIABLES
    \* ---- the graph and vector store and the ingest calls against it
    store,          \* the nodes and edges of the graph, and the projection catalog
    ingests,        \* the ingest calls: configuration, position, locals
    uuidsDrawn      \* number of uuid4 values the ingest calls have drawn

graphVars == <<store, ingests, uuidsDrawn>>

vars == <<driftVars, extractVars, kbVars, graphVars, serviceVars>>

nonDriftVars == <<extractVars, kbVars, graphVars, serviceVars>>
nonExtractVars == <<driftVars, kbVars, graphVars, serviceVars>>
nonKbVars == <<driftVars, extractVars, graphVars, serviceVars>>
nonGraphVars == <<driftVars, extractVars, kbVars, serviceVars>>
nonRegistryVars == <<driftVars, extractVars, graphVars, runs, ontologyCalls>>

(***************************************************************************)
(* Helpers.                                                                *)
(***************************************************************************)
SeqsUpTo(S, n) == UNION {[1..k -> S] : k \in 0..n}

RECURSIVE SumSeq(_)
SumSeq(s) == IF s = <<>> THEN 0 ELSE Head(s) + SumSeq(Tail(s))

(***************************************************************************)
(* rag/schema/retrievers.py                                                *)
(***************************************************************************)
\* Node(query=..., answer=...): children defaults to a fresh empty list
Node(query, answer) == [query |-> query, answer |-> answer, children |-> <<>>]

\* a mutation of add_child that puts the new child first
add_child_prepend(children, child) == <<child>> \o children

\* Node.add_child: self.children.append(node)
add_child(children, child) == Append(children, child)

(***************************************************************************)
(* rag/retrievers/drift.py                                                 *)
(***************************************************************************)
DriftConfigs ==
    {[top_k |-> ConfiguredTopK, max_follow_ups |-> ConfiguredFollowUps]}
    \cup {[top_k |-> ConfiguredTopK, max_depth |-> d,
           max_follow_ups |-> ConfiguredFollowUps] : d \in ConfiguredDepths}

\* config.get("max_depth", 3)
MaxDepthOf(cfg) ==
    IF "max_depth" \in DOMAIN cfg THEN cfg["max_depth"] ELSE DefaultMaxDepth

\* a mutation of the depth test that lets one more level recurse
IsLeafOffByOne(depth, cfg) == depth > MaxDepthOf(cfg)

\* if depth >= config.get("max_depth", 3): return node
IsLeaf(depth, cfg) == depth >= MaxDepthOf(cfg)

\* the activation record of drift_search(query, llm, vector_store, config, depth)
Frame(query, depth) ==
    [query |-> query, depth |-> depth, pc |-> "expand",
     expanded_query |-> "", top_communities |-> <<>>,
     node |-> 0, follow_up_questions |-> <<>>, i |-> 0]

Top == stack[Len(stack)]

\* follow-ups the suspended callers still have to search once the follow-up
\* they are searching now has returned
Pending(stk) ==
    SumSeq([k \in 1..Len(stk) |->
              IF stk[k].pc = "loop"
              THEN Len(stk[k].follow_up_questions) - stk[k].i - 1
              ELSE 0])

\* vector_store.similarity_search(query, top_k): at most top_k of the stored
\* documents, none twice
SimilaritySearch(top_k) ==
    {docs \in SeqsUpTo(Communities, Cardinality(Communities)) :
        /\ Len(docs) <= top_k
        /\ \A i, j \in 1..Len(docs) : docs[i] = docs[j] => i = j}

\* the innermost call returns node n: the caller appends it to its node's
\* children and moves to the next follow-up; the outermost hands it to the tool
ReturnNode(n, nds) ==
    LET rest == SubSeq(stack, 1, Len(stack) - 1) IN
    IF rest = <<>>
    THEN /\ stack' = <<>>
         /\ nodes' = nds
         /\ root' = n
         /\ toolPc' = "collect"
    ELSE LET caller == rest[Len(rest)] IN
         /\ stack' = [rest EXCEPT ![Len(rest)].i = caller.i + 1]
         /\ nodes' = [nds EXCEPT ![caller.node].children =
                                    add_child(nds[caller.node].children, n)]
         /\ UNCHANGED <<root, toolPc>>

\* search_knowledge_base: root = drift_search(query, llm, vector_store, drift_config)
StartSearch ==
    /\ toolPc = "idle"
    /\ \E q \in UserQueries : stack' = <<Frame(q, 1)>>
    /\ toolPc' = "searching"
    /\ UNCHANGED <<config, nodes, calls, root, facts, output>>
    /\ UNCHANGED nonDriftVars

\* expand_query: one language-model call, query + res.content
ExpandQuery ==
    /\ toolPc = "searching" /\ stack # <<>> /\ Top.pc = "expand"
    /\ \E content \in HydeContents :
         stack' = [stack EXCEPT ![Len(stack)].expanded_query = Top.query \o content,
                                ![Len(stack)].pc = "vector"]
    /\ UNCHANGED <<toolPc, config, nodes, calls, root, facts, output>>
    /\ UNCHANGED nonDriftVars

\* vector_search(expanded_query, vector_store, config["top_k"])
VectorSearch ==
    /\ toolPc = "searching" /\ stack # <<>> /\ Top.pc = "vector"
    /\ \E docs \in SimilaritySearch(config["top_k"]) :
         stack' = [stack EXCEPT ![Len(stack)].top_communities = docs,
                                ![Len(stack)].pc = "primer"]
    /\ UNCHANGED <<toolPc, config, nodes, calls, root, facts, output>>
    /\ UNCHANGED nonDriftVars

\* primer_search (one language-model call, parsed into body and
\* follow_up_questions), Node(query, answer), and the depth test; a call that
\* returns at the depth test never reads follow_up_questions
PrimerSearch(As, Qs, maxLen, budget) ==
    /\ toolPc = "searching" /\ stack # <<>> /\ Top.pc = "primer"
    /\ \E body \in As :
         LET n == Len(nodes) + 1
             nds == Append(nodes, Node(Top.query, body))
         IN  IF IsLeaf(Top.depth, config)
             THEN /\ \E fu \in SeqsUpTo(Qs, maxLen) : TRUE
                  /\ calls' = Append(calls,
                        [depth |-> Top.depth, follow_up_questions |-> <<>>])
                  /\ ReturnNode(n, nds)
             ELSE \E fu \in SeqsUpTo(Qs, maxLen) :
                  /\ n + Pending(stack) + Len(fu) <= budget
                  /\ calls' = Append(calls,
                        [depth |-> Top.depth, follow_up_questions |-> fu])
                  /\ stack' = [stack EXCEPT
                                 ![Len(stack)].node = n,
                                 ![Len(stack)].follow_up_questions = fu,
                                 ![Len(stack)].pc = "loop"]
                  /\ nodes' = nds
                  /\ UNCHANGED <<root, toolPc>>
    /\ UNCHANGED <<config, facts, output>>
    /\ UNCHANGED nonDriftVars

\* a mutation of the loop that takes the follow-ups from the last to the first
NextFollowUpReversed(frame) ==
    frame.follow_up_questions[Len(frame.follow_up_questions) - frame.i]

\* the follow-up the loop of the frame takes next
NextFollowUp(frame) == frame.follow_up_questions[frame.i + 1]

\* for follow_up in follow_up_questions: drift_search(follow_up, ..., depth + 1)
RecurseFollowUp ==
    /\ toolPc = "searching" /\ stack # <<>> /\ Top.pc = "loop"
    /\ Top.i < Len(Top.follow_up_questions)
    /\ stack' = Append(stack, Frame(NextFollowUp(Top), Top.depth + 1))
    /\ UNCHANGED <<toolPc, config, nodes, calls, root, facts, output>>
    /\ UNCHANGED nonDriftVars

\* the loop is exhausted: return node
ReturnFromLoop ==
    /\ toolPc = "searching" /\ stack # <<>> /\ Top.pc = "loop"
    /\ Top.i = Len(Top.follow_up_questions)
    /\ ReturnNode(Top.node, nodes)
    /\ UNCHANGED <<config, calls, facts, output>>
    /\ UNCHANGED nonDriftVars

(***************************************************************************)
(* rag/utils/retrievers.py and rag/tools/search.py                         *)
(***************************************************************************)
RECURSIVE Concat(_)
Concat(ss) == IF ss = <<>> THEN <<>> ELSE Head(ss) \o Concat(Tail(ss))

\* a mutation of collect_answers that appends the node's answer after its children's
RECURSIVE collect_answers_postorder(_, _)
collect_answers_postorder(nds, n) ==
    Concat([k \in 1..Len(nds[n].children) |->
               collect_answers_postorder(nds, nds[n].children[k])])
    \o (IF nds[n].answer # "" THEN <<nds[n].answer>> ELSE <<>>)

\* a mutation of collect_answers without the `if node.answer` test
RECURSIVE collect_answers_unfiltered(_, _)
collect_answers_unfiltered(nds, n) ==
    <<nds[n].answer>>
    \o Concat([k \in 1..Len(nds[n].children) |->
                  collect_answers_unfiltered(nds, nds[n].children[k])])

\* collect_answers(node): `if node.answer` keeps every non-empty string
RECURSIVE collect_answers(_, _)
collect_answers(nds, n) ==
    (IF nds[n].answer # "" THEN <<nds[n].answer>> ELSE <<>>)
    \o Concat([k \in 1..Len(nds[n].children) |->
                  collect_answers(nds, nds[n].children[k])])

\* str.strip() on the answers of the model: blanks strip to the empty string
Strip(s) == IF s \in {"", " "} THEN "" ELSE s

RECURSIVE Join(_, _)
Join(sep, lines) ==
    IF lines = <<>> THEN ""
    ELSE IF Len(lines) = 1 THEN lines[1]
    ELSE lines[1] \o sep \o Join(sep, Tail(lines))

\* [f"- {fact}" for fact in facts if fact.strip()]
Formatted(fs) ==
    LET kept == SelectSeq(fs, LAMBDA f : Strip(f) # "")
    IN  [k \in 1..Len(kept) |-> "- " \o kept[k]]

\* _format_facts(facts)
format_facts(fs) ==
    IF Formatted(fs) # <<>>
    THEN "### Relevant Facts\n" \o Join("\n", Formatted(fs))
    ELSE "No relevant facts found."

\* search_knowledge_base: facts = collect_answers(root); return _format_facts(facts)
CollectAndFormat ==
    /\ toolPc = "collect"
    /\ facts' = collect_answers(nodes, root)
    /\ output' = format_facts(collect_answers(nodes, root))
    /\ toolPc' = "done"
    /\ UNCHANGED <<config, stack, nodes, calls, root>>
    /\ UNCHANGED nonDriftVars

(***************************************************************************)
(* ingestion/schema/extractor.py                                           *)
(***************************************************************************)
\* Entity(id, entity_label, properties, doc_ids)
Entity(id, label, properties, doc_ids) ==
    [id |-> id, entity_label |-> label, properties |-> properties, doc_ids |-> doc_ids]

\* Triplet(source_id, relationship, target_id)
Triplet(source_id, relationship, target_id) ==
    [source_id |-> source_id, relationship |-> relationship, target_id |-> target_id]

\* the entities the parser accepts from the language model: doc_ids is a
\* field of the schema, empty by default, and is read when the output has it
LMEntities ==
    {Entity(i, l, p, {}) : i \in LMEntityIds, l \in EntityLabels, p \in PropertyMaps}
    \cup {Entity("e1", "Driver", [name |-> "Senna"], {MadeUpDocId})}

\* the triplets the parser accepts from the language model
LMTriplets ==
    {Triplet(ab[1], r, ab[2]) :
        ab \in {x \in LMEntityIds \X LMEntityIds : x[1] # x[2]}, r \in RelationshipLabels}

\* EntityRelationships(entities, triplets)
EntityRelationships(entities, trips) == [entities |-> entities, triplets |-> trips]

NoExtraction == EntityRelationships(<<>>, <<>>)

(***************************************************************************)
(* The extraction loop and the id reassignment:                            *)
(* ingestion/ingestors/property_graph.py (ingest, _reassign_entity_ids)    *)
(* ingestion/extractors/graph_extractor.py (extract, _reassign_entity_ids) *)
(***************************************************************************)
ExtractorClasses == {"PropertyGraphIngestor", "GraphExtractor"}

\* ent.id in entity_storage
InStorage(storage, id) == \E k \in 1..Len(storage) : storage[k].id = id

\* the position of the entity stored under id
StorageIndex(storage, id) == CHOOSE k \in 1..Len(storage) : storage[k].id = id

\* dict.update: properties.update(ent.properties)
dict_update(old, new) ==
    [k \in DOMAIN old \cup DOMAIN new |-> IF k \in DOMAIN new THEN new[k] ELSE old[k]]

\* one turn of `for ent in extraction.entities`: the chunk id is added to the
\* returned entity, which is merged into the stored one or stored itself
MergeEntity(storage, ent, doc_id) ==
    LET ent1 == [ent EXCEPT !.doc_ids = ent.doc_ids \cup {doc_id}] IN
    IF InStorage(storage, ent.id)
    THEN LET k == StorageIndex(storage, ent.id) IN
         [storage EXCEPT
            ![k].properties = dict_update(storage[k].properties, ent1.properties),
            ![k].doc_ids = storage[k].doc_ids \cup {doc_id}]
    ELSE Append(storage, ent1)

\* uuid.uuid4(): the n-th value drawn, different from every other one and
\* from every id the language model writes
Uuid(n) == "uuid-" \o ToString(n)

\* the work the method does before the loop is outside this run
StartExtraction ==
    /\ exPc = "idle"
    /\ exPc' = "call"
    /\ UNCHANGED <<extractor, docIdx, extraction, entIdx, lmEntities, entity_storage,
                   triplets, uuidCount, id_map, new_entities, new_triplets>>
    /\ UNCHANGED nonExtractVars

\* every parsed response that keeps the run within its bounds
AnyResponse ==
    {EntityRelationships(es, ts) :
        es \in SeqsUpTo(LMEntities, MaxReturnedEntities - lmEntities),
        ts \in SeqsUpTo(LMTriplets, MaxReturnedTriplets - Len(triplets))}

\* _apply_ontology_to_doc(document, current_context_entities): one
\* language-model call, parsed into an EntityRelationships
ApplyOntologyToDoc(responses) ==
    /\ exPc = "call"
    /\ docIdx < Len(Documents)
    /\ \E parsed \in responses : extraction' = parsed
    /\ entIdx' = 0
    /\ exPc' = "merge"
    /\ UNCHANGED <<extractor, docIdx, lmEntities, entity_storage, triplets,
                   uuidCount, id_map, new_entities, new_triplets>>
    /\ UNCHANGED nonExtractVars

\* for ent in extraction.entities: one turn
MergeNextEntity ==
    /\ exPc = "merge"
    /\ entIdx < Len(extraction.entities)
    /\ entity_storage' = MergeEntity(entity_storage, extraction.entities[entIdx + 1],
                                     Documents[docIdx + 1])
    /\ entIdx' = entIdx + 1
    /\ UNCHANGED <<extractor, exPc, docIdx, extraction, lmEntities, triplets,
                   uuidCount, id_map, new_entities, new_triplets>>
    /\ UNCHANGED nonExtractVars

\* triplets.extend(extraction.triplets), and on to the next document
ExtendTriplets ==
    /\ exPc = "merge"
    /\ entIdx = Len(extraction.entities)
    /\ triplets' = triplets \o extraction.triplets
    /\ docIdx' = docIdx + 1
    /\ lmEntities' = lmEntities + Len(extraction.entities)
    /\ exPc' = IF docIdx + 1 = Len(Documents) THEN "reassign" ELSE "call"
    /\ UNCHANGED <<extractor, extraction, entIdx, entity_storage,
                   uuidCount, id_map, new_entities, new_triplets>>
    /\ UNCHANGED nonExtractVars

\* the first loop of both _reassign_entity_ids: a new Entity per stored
\* entity, under a fresh id
ReassignedEntities(entities, drawn) ==
    [k \in 1..Len(entities) |->
        Entity(Uuid(drawn + k), entities[k].entity_label,
               entities[k].properties, entities[k].doc_ids)]

\* PropertyGraphIngestor: id_map[entity.id] = new_id
IdMapOfIngestor(entities, drawn) ==
    [id \in {entities[k].id : k \in 1..Len(entities)} |->
        Uuid(drawn + StorageIndex(entities, id))]

\* GraphExtractor: id_map[new_id] = new_id
IdMapOfExtractor(entities, drawn) ==
    [id \in {Uuid(drawn + k) : k \in 1..Len(entities)} |-> id]

\* a mutation of the triplet loop that emits an equal triplet once only
RewriteTripletsDeduplicated(trips, map) ==
    LET kept == SelectSeq(trips, LAMBDA t : /\ t.source_id \in DOMAIN map
                                            /\ t.target_id \in DOMAIN map)
        first == {k \in 1..Len(kept) : \A j \in 1..(k - 1) : kept[j] # kept[k]}
        pick[n \in 0..Len(kept)] ==
            IF n = 0 THEN <<>>
            ELSE IF n \in first THEN Append(pick[n - 1], kept[n]) ELSE pick[n - 1]
        uniq == pick[Len(kept)]
    IN  [k \in 1..Len(uniq) |->
            Triplet(map[uniq[k].source_id], uniq[k].relationship,
                    map[uniq[k].target_id])]

\* a mutation of the triplet loop that tests the source id alone and passes
\* an unmapped target id through
RewriteTripletsSourceOnly(trips, map) ==
    LET kept == SelectSeq(trips, LAMBDA t : t.source_id \in DOMAIN map)
    IN  [k \in 1..Len(kept) |->
            Triplet(map[kept[k].source_id], kept[k].relationship,
                    IF kept[k].target_id \in DOMAIN map
                    THEN map[kept[k].target_id] ELSE kept[k].target_id)]

\* the second loop of both _reassign_entity_ids: a triplet with an endpoint
\* outside id_map is skipped, the others are rewritten through id_map
RewriteTriplets(trips, map) ==
    LET kept == SelectSeq(trips, LAMBDA t : /\ t.source_id \in DOMAIN map
                                            /\ t.target_id \in DOMAIN map)
    IN  [k \in 1..Len(kept) |->
            Triplet(map[kept[k].source_id], kept[k].relationship,
                    map[kept[k].target_id])]

\* entities = list(entity_storage.values()); _reassign_entity_ids(...)
ReassignEntityIds(map) ==
    /\ exPc = "reassign"
    /\ id_map' = map
    /\ new_entities' = ReassignedEntities(entity_storage, uuidCount)
    /\ new_triplets' = RewriteTriplets(triplets, map)
    /\ uuidCount' = uuidCount + Len(entity_storage)
    /\ exPc' = "done"
    /\ UNCHANGED <<extractor, docIdx, extraction, entIdx, lmEntities,
                   entity_storage, triplets>>
    /\ UNCHANGED nonExtractVars

\* PropertyGraphIngestor._reassign_entity_ids
ReassignByIngestor ==
    /\ extractor = "PropertyGraphIngestor"
    /\ ReassignEntityIds(IdMapOfIngestor(entity_storage, uuidCount))

\* GraphExtractor._reassign_entity_ids
ReassignByExtractor ==
    /\ extractor = "GraphExtractor"
    /\ ReassignEntityIds(IdMapOfExtractor(entity_storage, uuidCount))

InitExtractVars(classes) ==
    /\ extractor \in classes
    /\ exPc = "idle"
    /\ docIdx = 0
    /\ extraction = NoExtraction
    /\ entIdx = 0
    /\ lmEntities = 0
    /\ entity_storage = <<>>
    /\ triplets = <<>>
    /\ uuidCount = 0
    /\ id_map = <<>>
    /\ new_entities = <<>>
    /\ new_triplets = <<>>

(***************************************************************************)
(* common/schema/knowledge_base.py, common/services/knowledge_base.py      *)
(***************************************************************************)
\* an optional value: <<>> is None, <<v>> is v
None == <<>>
Some(v) == <<v>>

\* KnowledgeBase(id, name, description, knowledge_extraction_prompt, ontology)
KnowledgeBase(id, ontology) ==
    [id |-> id, name |-> "kb", description |-> None,
     knowledge_extraction_prompt |-> Some("prompt"), ontology |-> ontology]

\* knowledge_base.ontology.model_dump_json() if knowledge_base.ontology else None
OntologyParameter(kb) ==
    IF kb.ontology # None
    THEN Some(<<"json", kb.ontology[1].entity_labels, kb.ontology[1].relationship_rules>>)
    ELSE None

\* the node MERGE creates: ON CREATE SET ...
CreatedNode(kb, now) ==
    [id |-> kb.id, name |-> kb.name, description |-> kb.description,
     knowledge_extraction_prompt |-> kb.knowledge_extraction_prompt,
     ontology |-> OntologyParameter(kb), createdAt |-> now, updatedAt |-> 0]

\* a mutation of ON MATCH SET that leaves the stored ontology as it is
UpdatedNodeKeepingOntology(node, kb, now) ==
    [node EXCEPT !.name = kb.name, !.description = kb.description,
                 !.knowledge_extraction_prompt = kb.knowledge_extraction_prompt,
                 !.updatedAt = now]

\* a matched node after ON MATCH SET ...
UpdatedNode(node, kb, now) ==
    [node EXCEPT !.name = kb.name, !.description = kb.description,
                 !.knowledge_extraction_prompt = kb.knowledge_extraction_prompt,
                 !.ontology = OntologyParameter(kb), !.updatedAt = now]

\* KnowledgeBaseService.upsert: MERGE (kb:KnowledgeBase {id: $id})
Upsert(graph, kb, now) ==
    IF \E k \in 1..Len(graph) : graph[k].id = kb.id
    THEN [k \in 1..Len(graph) |->
            IF graph[k].id = kb.id THEN UpdatedNode(graph[k], kb, now) ELSE graph[k]]
    ELSE Append(graph, CreatedNode(kb, now))

\* KnowledgeBaseService.create: CREATE (kb:KnowledgeBase {...}), whatever
\* nodes the graph has
Create(graph, kb, now) == Append(graph, CreatedNode(kb, now))

\* Ontology.model_validate(json.loads(ontology_json))
ParsedOntology(ontology_json) ==
    [entity_labels |-> ontology_json[2], relationship_rules |-> ontology_json[3]]

\* get_by_id, lines 73-86: the KnowledgeBase built from the properties of a node
KnowledgeBaseOfNode(kb_data) ==
    [id |-> kb_data.id, name |-> kb_data.name,
     description |-> kb_data.description,
     knowledge_extraction_prompt |-> kb_data.knowledge_extraction_prompt,
     ontology |-> IF kb_data.ontology # None
                  THEN Some(ParsedOntology(kb_data.ontology[1]))
                  ELSE None]

\* KnowledgeBaseService.get_by_id: None without a matching node, else the
\* KnowledgeBase of result[0]; the graph returns the matching nodes in no
\* particular order, so with several of them any can be the first
GetById(graph, id) ==
    LET matched == {k \in 1..Len(graph) : graph[k].id = id}
    IN  IF matched = {} THEN {None}
        ELSE {Some(KnowledgeBaseOfNode(graph[k])) : k \in matched}

\* the knowledge bases the service is called with
ServiceKnowledgeBases ==
    {[id |-> id, name |-> text[1], description |-> text[2],
      knowledge_extraction_prompt |-> Some("prompt"), ontology |-> o] :
        id \in KbIds, text \in KbTexts,
        o \in {None} \cup {Some(x) : x \in Ontologies}}

\* service.create(knowledge_base)
CreateCall ==
    /\ served < MaxServiceCalls
    /\ \E kb \in ServiceKnowledgeBases :
         /\ kbNodes' = Create(kbNodes, kb, clock + 1)
         /\ lastCall' = [method |-> "create", argument |-> kb,
                         before |-> kbNodes, result |-> None]
    /\ clock' = clock + 1
    /\ served' = served + 1
    /\ UNCHANGED nonRegistryVars

\* service.upsert(knowledge_base)
UpsertCall ==
    /\ served < MaxServiceCalls
    /\ \E kb \in ServiceKnowledgeBases :
         /\ kbNodes' = Upsert(kbNodes, kb, clock + 1)
         /\ lastCall' = [method |-> "upsert", argument |-> kb,
                         before |-> kbNodes, result |-> None]
    /\ clock' = clock + 1
    /\ served' = served + 1
    /\ UNCHANGED nonRegistryVars

\* service.get_by_id(id)
GetByIdCall ==
    /\ served < MaxServiceCalls
    /\ \E id \in KbIds \cup {NoKbId} :
         \E result \in GetById(kbNodes, id) :
            lastCall' = [method |-> "get_by_id", argument |-> id,
                         before |-> kbNodes, result |-> result]
    /\ served' = served + 1
    /\ UNCHANGED <<kbNodes, clock>>
    /\ UNCHANGED nonRegistryVars

InitServiceVars ==
    /\ served = 0
    /\ lastCall = [method |-> "none", argument |-> None, before |-> <<>>,
                   result |-> None]

(***************************************************************************)
(* api/routers/knowledge_base.py, the pipeline, and the ontology part of   *)
(* PropertyGraphIngestor.ingest                                            *)
(***************************************************************************)
\* POST /ingest: a PropertyGraphIngestor built without ontology, a Pipeline
\* for the knowledge base of the payload, and pipeline.run as background task
IngestRequest ==
    /\ Len(runs) < MaxRuns
    /\ \E id \in KbIds, ontology \in {None} \cup {Some(o) : o \in Ontologies} :
         runs' = Append(runs,
            [knowledge_base |-> KnowledgeBase(id, ontology),
             ingestor_ontology |-> None,
             ingestor_knowledge_base |-> None,
             pc |-> "upsert", file |-> 0,
             extraction_calls |-> {}, writes |-> {}, ingested |-> {},
             raised |-> {}])
    /\ UNCHANGED <<kbNodes, clock, ontologyCalls>>
    /\ UNCHANGED nonKbVars

\* Pipeline.run, first step: the knowledge base of the run is upserted
PipelineUpsert(r) ==
    /\ runs[r].pc = "upsert"
    /\ kbNodes' = Upsert(kbNodes, runs[r].knowledge_base, clock + 1)
    /\ clock' = clock + 1
    /\ runs' = [runs EXCEPT ![r].pc = "ingest"]
    /\ UNCHANGED ontologyCalls
    /\ UNCHANGED nonKbVars

\* a mutation of the failing ontology call that attaches an empty ontology to
\* the knowledge base and saves it before it raises
ExtractOntologyRaisesAfterUpsert(r) ==
    LET kb == runs[r].knowledge_base
        partial == Some([entity_labels |-> <<>>, relationship_rules |-> <<>>])
    IN  /\ ontologyCalls' = [ontologyCalls EXCEPT ![kb.id] = @ + 1]
        /\ kbNodes' = Upsert(kbNodes, [kb EXCEPT !.ontology = partial], clock + 1)
        /\ clock' = clock + 1
        /\ runs' = [runs EXCEPT
                      ![r].knowledge_base.ontology = partial,
                      ![r].raised = @ \cup {<<runs[r].file + 1, "ontology">>},
                      ![r].pc = "raised"]

\* _extract_ontology, line 172: the response of the language model does not
\* parse into an Ontology; the parser raises and ingest passes the error on
\* before knowledge_base.ontology is assigned
ExtractOntologyRaises(r) ==
    /\ ontologyCalls' = [ontologyCalls EXCEPT ![runs[r].knowledge_base.id] = @ + 1]
    /\ runs' = [runs EXCEPT
                  ![r].raised = @ \cup {<<runs[r].file + 1, "ontology">>},
                  ![r].pc = "raised"]
    /\ UNCHANGED <<kbNodes, clock>>

\* PropertyGraphIngestor.ingest, lines 68-83, for the next file of the run:
\* the ontology is taken from the ingestor, else from the knowledge base
\* passed in, else derived by the language model and persisted
ResolveOntology(r) ==
    /\ runs[r].pc = "ingest"
    /\ runs[r].file < Len(Files)
    /\ LET run == runs[r]
           kb == run.knowledge_base
           keep_kb == IF run.ingestor_knowledge_base = None
                      THEN Some(kb.id) ELSE run.ingestor_knowledge_base
       IN  IF run.ingestor_ontology # None
           THEN /\ runs' = [runs EXCEPT ![r].ingestor_knowledge_base = keep_kb,
                                        ![r].pc = "rest"]
                /\ UNCHANGED <<kbNodes, clock, ontologyCalls>>
           ELSE IF kb.ontology # None
           THEN /\ runs' = [runs EXCEPT ![r].ingestor_ontology = kb.ontology,
                                        ![r].ingestor_knowledge_base = keep_kb,
                                        ![r].pc = "rest"]
                /\ UNCHANGED <<kbNodes, clock, ontologyCalls>>
           ELSE \/ ExtractOntologyRaises(r)
                \/ \E parsed \in Ontologies :
                     /\ ontologyCalls' = [ontologyCalls EXCEPT ![kb.id] = @ + 1]
                     /\ kbNodes' = Upsert(kbNodes,
                                          [kb EXCEPT !.ontology = Some(parsed)],
                                          clock + 1)
                     /\ clock' = clock + 1
                     /\ runs' = [runs EXCEPT
                                   ![r].knowledge_base.ontology = Some(parsed),
                                   ![r].ingestor_ontology = Some(parsed),
                                   ![r].ingestor_knowledge_base = keep_kb,
                                   ![r].pc = "rest"]
    /\ UNCHANGED nonKbVars

\* the position of the pipeline after the file it was working on
AfterFile(run) ==
    [run EXCEPT !.file = run.file + 1,
                !.pc = IF run.file + 1 = Len(Files) THEN "done" ELSE "ingest"]

\* the rest of ingest for the file (lines 85-161): the chunk extraction calls
\* and the graph writes; it leaves the ontology, the knowledge base and the
\* registry alone; the pipeline goes on to the next file
FinishFile(r) ==
    /\ runs[r].pc = "rest"
    /\ runs' = [runs EXCEPT ![r] =
                  AfterFile([runs[r] EXCEPT
                               !.extraction_calls = @ \cup {runs[r].file + 1},
                               !.writes = @ \cup {runs[r].file + 1},
                               !.ingested = @ \cup {runs[r].file + 1}])]
    /\ UNCHANGED <<kbNodes, clock, ontologyCalls>>
    /\ UNCHANGED nonKbVars

\* a mutation of the failing chunk extraction in which the error is swallowed
\* and the file goes on as ingested
ExtractionRaisesSilently(r) ==
    /\ runs[r].pc = "rest"
    /\ runs' = [runs EXCEPT ![r] =
                  AfterFile([runs[r] EXCEPT
                               !.extraction_calls = @ \cup {runs[r].file + 1},
                               !.raised = @ \cup {<<runs[r].file + 1, "extraction">>},
                               !.ingested = @ \cup {runs[r].file + 1}])]
    /\ UNCHANGED <<kbNodes, clock, ontologyCalls>>
    /\ UNCHANGED nonKbVars

\* _apply_ontology_to_doc, line 206: the response for a chunk of the file does
\* not parse into an EntityRelationships; the parser raises inside the loop of
\* lines 91-116, before any graph write of the file, and ingest passes it on
ExtractionRaises(r) ==
    /\ runs[r].pc = "rest"
    /\ runs' = [runs EXCEPT
                  ![r].extraction_calls = @ \cup {runs[r].file + 1},
                  ![r].raised = @ \cup {<<runs[r].file + 1, "extraction">>},
                  ![r].pc = "raised"]
    /\ UNCHANGED <<kbNodes, clock, ontologyCalls>>
    /\ UNCHANGED nonKbVars

\* Pipeline.run: an ingest that raised ends the work on its file only; the
\* pipeline goes on to the next file
PipelineAbortFile(r) ==
    /\ runs[r].pc = "raised"
    /\ runs' = [runs EXCEPT ![r] = AfterFile(runs[r])]
    /\ UNCHANGED <<kbNodes, clock, ontologyCalls>>
    /\ UNCHANGED nonKbVars

InitKbVars ==
    /\ kbNodes = <<>>
    /\ clock = 0
    /\ runs = <<>>
    /\ ontologyCalls = [id \in KbIds |-> 0]

(***************************************************************************)
(* The queries of the ingestors against the graph store:                   *)
(* ingestion/ingestors/property_graph.py, ingestion/ingestors/lexical_graph.py *)
(***************************************************************************)
IngestorClasses == {"PropertyGraphIngestor", "LexicalGraphIngestor"}

EmptyGraph ==
    [chunks |-> {}, entities |-> {}, belongs_to |-> {}, relationships |-> {},
     communities |-> {}, in_community |-> {}, similar |-> {},
     files |-> {}, chunk_of |-> {}, projected |-> FALSE]

\* vector_store.add_documents(documents): a Chunk node per document, merged
\* on its id, with the source_id of the document's metadata
AddDocuments(g, file, docs) ==
    LET ids == {docs[k] : k \in 1..Len(docs)}
        kept == {c \in g.chunks : c.id \notin ids}
        written == {[id |-> d, source_id |-> Some(file),
                     community_id |->
                        IF \E c \in g.chunks : c.id = d
                        THEN (CHOOSE c \in g.chunks : c.id = d).community_id
                        ELSE None] : d \in ids}
    IN  [g EXCEPT !.chunks = kept \cup written]

\* _create_file_node: MERGE (f:File {id}), name set on create and on match;
\* MERGE (c)-[:CHUNK_OF]->(f) for every Chunk with source_id = f.id
CreateFileNode(g, file) ==
    [g EXCEPT
       !.files = {f \in g.files : f.id # file} \cup {[id |-> file, name |-> file]},
       !.chunk_of = @ \cup {<<c.id, file>> : c \in {x \in g.chunks :
                                                      x.source_id = Some(file)}}]

\* a merge of the SIMILAR edge that would set the score on a match as well
ConnectSimilarChunksSettingScore(g, edge) ==
    IF /\ \E c \in g.chunks : c.id = edge.from
       /\ \E c \in g.chunks : c.id = edge.to
    THEN [g EXCEPT !.similar =
            {e \in @ : ~(e.from = edge.from /\ e.to = edge.to)} \cup {edge}]
    ELSE g

\* _connect_similar_chunks, one edge: MATCH both chunks,
\* MERGE (from)-[r:SIMILAR]->(to) ON CREATE SET r.score = $score
ConnectSimilarChunks(g, edge) ==
    IF /\ \E c \in g.chunks : c.id = edge.from
       /\ \E c \in g.chunks : c.id = edge.to
       /\ ~\E e \in g.similar : e.from = edge.from /\ e.to = edge.to
    THEN [g EXCEPT !.similar = @ \cup {edge}]
    ELSE g

\* the key of the MERGE of an entity node: the ingestor of the property graph
\* has knowledge_base_id in it, the lexical one has not
MatchesEntityKey(e, class, entity, kb, file) ==
    /\ e.label = entity.entity_label
    /\ e.id = entity.id
    /\ e.source_id = file
    /\ class = "PropertyGraphIngestor" => e.knowledge_base_id = Some(kb)

\* SET e += $properties: every key of the map is set on the node, the keys
\* id, knowledge_base_id, source_id and community_id like any other
SetProperties(e, properties) ==
    [e EXCEPT
       !.properties = dict_update(@, properties),
       !.id = IF "id" \in DOMAIN properties THEN properties.id ELSE @,
       !.knowledge_base_id = IF "knowledge_base_id" \in DOMAIN properties
                             THEN Some(properties.knowledge_base_id) ELSE @,
       !.source_id = IF "source_id" \in DOMAIN properties
                     THEN properties.source_id ELSE @,
       !.community_id = IF "community_id" \in DOMAIN properties
                        THEN Some(properties.community_id) ELSE @]

\* _create_entity_and_links, first query:
\* MERGE (e:<label> {id, [knowledge_base_id,] source_id}) SET e += $properties
MergeEntityNode(g, class, entity, kb, file) ==
    IF \E e \in g.entities : MatchesEntityKey(e, class, entity, kb, file)
    THEN [g EXCEPT !.entities =
            {IF MatchesEntityKey(e, class, entity, kb, file)
             THEN SetProperties(e, entity.properties)
             ELSE e : e \in g.entities}]
    ELSE [g EXCEPT !.entities = @ \cup
            {SetProperties(
               [label |-> entity.entity_label, id |-> entity.id,
                knowledge_base_id |->
                   IF class = "PropertyGraphIngestor" THEN Some(kb) ELSE None,
                source_id |-> file, properties |-> <<>>,
                community_id |-> None],
               entity.properties)}]

\* _create_entity_and_links, second query, for one doc_id:
\* MATCH (e:<label> {id}) MERGE (c:Chunk {id: $doc_id}) MERGE (e)-[:BELONGS_TO]->(c)
MergeBelongsTo(g, label, entity_id, doc_id) ==
    IF \E e \in g.entities : e.label = label /\ e.id = entity_id
    THEN [g EXCEPT
            !.chunks = IF \E c \in g.chunks : c.id = doc_id THEN @
                       ELSE @ \cup {[id |-> doc_id, source_id |-> None,
                                     community_id |-> None]},
            !.belongs_to = @ \cup {<<entity_id, doc_id>>}]
    ELSE g

RECURSIVE MergeBelongsToAll(_, _, _, _)
MergeBelongsToAll(g, label, entity_id, doc_ids) ==
    IF doc_ids = {} THEN g
    ELSE LET d == CHOOSE x \in doc_ids : TRUE
         IN  MergeBelongsToAll(MergeBelongsTo(g, label, entity_id, d),
                               label, entity_id, doc_ids \ {d})

\* _create_entity_and_links(entity, file_metadata)
CreateEntityAndLinks(g, class, entity, kb, file) ==
    MergeBelongsToAll(MergeEntityNode(g, class, entity, kb, file),
                      entity.entity_label, entity.id, entity.doc_ids)

\* the ids of all nodes of the graph, whatever their label
NodeIds(g) ==
    {e.id : e \in g.entities} \cup {c.id : c \in g.chunks}
    \cup {c.id : c \in g.communities} \cup {f.id : f \in g.files}

\* _create_triplet_relationship: MATCH (s {id}) MATCH (t {id})
\* MERGE (s)-[r:<relationship>]->(t)
CreateTripletRelationship(g, triplet) ==
    IF triplet.source_id \in NodeIds(g) /\ triplet.target_id \in NodeIds(g)
    THEN [g EXCEPT !.relationships = @ \cup {triplet}]
    ELSE g

\* the ids of the nodes a projection over node_labels takes in
ProjectedIds(g, node_labels) ==
    (IF "Chunk" \in node_labels THEN {c.id : c \in g.chunks} ELSE {})
    \cup {e.id : e \in {x \in g.entities : x.label \in node_labels}}

\* gds.graph.project('kg', ...) and gds.leiden.write('kg', {writeProperty:
\* 'community_id'}): the raw id the engine found is written on every node of
\* the projection, and the projection stays in the catalog
ProjectAndDetect(g, node_labels, detected) ==
    [g EXCEPT
       !.projected = TRUE,
       !.chunks = {IF c.id \in DOMAIN detected
                   THEN [c EXCEPT !.community_id = Some(detected[c.id])]
                   ELSE c : c \in g.chunks},
       !.entities = {IF e.id \in DOMAIN detected
                     THEN [e EXCEPT !.community_id = Some(detected[e.id])]
                     ELSE e : e \in g.entities}]

\* CALL gds.graph.drop('kg', false)
DropProjection(g) == [g EXCEPT !.projected = FALSE]

\* toString(e.source_id) + "_" + toString(e.community_id)
Namespaced(source_id, community_id) == source_id \o "_" \o community_id

\* MATCH (e {source_id}) WHERE e.community_id IS NOT NULL SET e.community_id = ...
NamespaceCommunityIds(g, file) ==
    [g EXCEPT
       !.chunks = {IF c.source_id = Some(file) /\ c.community_id # None
                   THEN [c EXCEPT !.community_id =
                                     Some(Namespaced(file, c.community_id[1]))]
                   ELSE c : c \in g.chunks},
       !.entities = {IF e.source_id = file /\ e.community_id # None
                     THEN [e EXCEPT !.community_id =
                                       Some(Namespaced(file, e.community_id[1]))]
                     ELSE e : e \in g.entities}]

\* MATCH (e {source_id}) WHERE NOT e:Chunk AND e.community_id IS NOT NULL
\* MERGE (c:Community {id}) ON CREATE SET c.source_id[, c.knowledge_base_id]
\* MERGE (e)-[:IN_COMMUNITY]->(c)
MergeCommunities(g, class, file, kb) ==
    LET members == {e \in g.entities : e.source_id = file /\ e.community_id # None}
        ids == {e.community_id[1] : e \in members}
        created == {[id |-> id, source_id |-> file,
                     knowledge_base_id |->
                        IF class = "PropertyGraphIngestor" THEN Some(kb) ELSE None,
                     summary |-> None, embedding |-> None] :
                    id \in {x \in ids : ~\E c \in g.communities : c.id = x}}
    IN  [g EXCEPT
           !.communities = @ \cup created,
           !.in_community = @ \cup {<<e.id, e.community_id[1]>> : e \in members}]

\* the first query of _generate_community_summaries: the communities of the
\* file that have a relationship between two of their members
CommunityData(g, file) ==
    {c.id : c \in {x \in g.communities :
        /\ x.source_id = file
        /\ \E r \in g.relationships :
              /\ <<r.source_id, x.id>> \in g.in_community
              /\ <<r.target_id, x.id>> \in g.in_community}}

\* apoc.map.clean(properties(n), ['community_id', 'source_id', 'id'], []): the
\* properties of a node without those three
CleanProperties(e) ==
    [map |-> [key \in DOMAIN e.properties \ {"community_id", "source_id", "id"}
                |-> e.properties[key]],
     knowledge_base_id |-> e.knowledge_base_id]

\* the node of the graph that has the id
EntityWithId(g, id) == CHOOSE e \in g.entities : e.id = id

\* the relationships of the graph between two members of a community
InternalRelationships(g, community_id) ==
    {r \in g.relationships :
        /\ <<r.source_id, community_id>> \in g.in_community
        /\ <<r.target_id, community_id>> \in g.in_community}

\* the triplets the first query of _generate_community_summaries collects for
\* a community: the source by labels(src) and properties(src), the target by
\* labels(tgt) and properties(src)
CommunityTriplets(g, community_id) ==
    {[source |-> [labels |-> {EntityWithId(g, r.source_id).label},
                  properties |-> CleanProperties(EntityWithId(g, r.source_id))],
      relationship |-> r.relationship,
      target |-> [labels |-> {EntityWithId(g, r.target_id).label},
                  properties |-> CleanProperties(EntityWithId(g, r.source_id))]] :
        r \in InternalRelationships(g, community_id)}

\* the last query of _generate_community_summaries:
\* SET c.summary = row.summary[, c.embedding = row.embedding]
WriteCommunitySummaries(g, class, summarized) ==
    [g EXCEPT !.communities =
       {IF c.id \in summarized
        THEN [c EXCEPT !.summary = Some("summary"),
                       !.embedding = IF class = "PropertyGraphIngestor"
                                     THEN Some("vector") ELSE @]
        ELSE c : c \in g.communities}]

(***************************************************************************)
(* The ingest calls against the graph store:                               *)
(* PropertyGraphIngestor.ingest from line 85 on, for an ingestor that was  *)
(* given its ontology, and LexicalGraphIngestor.ingest                     *)
(***************************************************************************)
\* the documents of the file of an ingest call
DocumentsOf(run) == FileDocuments[run.file]

\* the responses of the language model to the chunks of a file: for the
\* first chunk a Driver and a Team with a works_for triplet, or a Driver
\* alone, or nothing; nothing for the other chunks
FileResponses(docs) ==
    LET driver == Entity("e1", "Driver", [name |-> "Senna"], {})
        team == Entity("e2", "Team", [name |-> "McLaren"], {})
        first == {EntityRelationships(<<driver, team>>,
                                      <<Triplet("e1", "works_for", "e2")>>),
                  EntityRelationships(<<driver>>, <<>>),
                  NoExtraction}
    IN  {resp \in [1..Len(docs) -> first \cup {NoExtraction}] :
            \A k \in 2..Len(docs) : resp[k] = NoExtraction}

\* the responses in which the language model finds one Driver in the first
\* chunk of the file and nothing else
DriverResponses(docs) ==
    {resp \in FileResponses(docs) : Len(resp[1].entities) = 1}

\* the properties the MERGE of an entity node is keyed on
MergeKeys == {"id", "knowledge_base_id", "source_id"}

\* the responses in which the language model finds one Driver in the first
\* chunk, with a property map that has a key "id", a key "source_id" or
\* neither
KeyedResponses(docs) ==
    LET plain == Entity("e1", "Driver", [name |-> "Senna"], {})
        keyed == Entity("e1", "Driver", [name |-> "Senna", id |-> "senna"], {})
        sourced == Entity("e1", "Driver", [name |-> "Senna", source_id |-> "wiki"], {})
    IN  {resp \in [1..Len(docs) -> {EntityRelationships(<<plain>>, <<>>),
                                     EntityRelationships(<<keyed>>, <<>>),
                                     EntityRelationships(<<sourced>>, <<>>),
                                     NoExtraction}] :
            /\ resp[1] # NoExtraction
            /\ \A k \in 2..Len(docs) : resp[k] = NoExtraction}

RECURSIVE MergeEntities(_, _, _)
\* for ent in extraction.entities, for one document
MergeEntities(storage, ents, doc_id) ==
    IF ents = <<>> THEN storage
    ELSE MergeEntities(MergeEntity(storage, Head(ents), doc_id), Tail(ents), doc_id)

RECURSIVE StorageAfter(_, _, _)
\* for document in documents: entity_storage after the responses
StorageAfter(storage, resp, docs) ==
    IF docs = <<>> THEN storage
    ELSE StorageAfter(MergeEntities(storage, Head(resp).entities, Head(docs)),
                      Tail(resp), Tail(docs))

\* the entities and triplets the extraction of a file ends with, by the
\* ingestor's own loop and reassignment or by GraphExtractor.extract
Extracted(class, resp, docs, drawn) ==
    LET stored == StorageAfter(<<>>, resp, docs)
        trips == Concat([k \in 1..Len(resp) |-> resp[k].triplets])
        map == IF class = "PropertyGraphIngestor"
               THEN IdMapOfIngestor(stored, drawn)
               ELSE IdMapOfExtractor(stored, drawn)
    IN  [entities |-> ReassignedEntities(stored, drawn),
         triplets |-> RewriteTriplets(trips, map)]

\* the nodes and the edges of the graph, their properties aside
NodesAndEdges(g) ==
    [nodes |-> NodeIds(g), belongs_to |-> g.belongs_to,
     relationships |-> g.relationships, in_community |-> g.in_community,
     similar |-> {<<e.from, e.to>> : e \in g.similar}, chunk_of |-> g.chunk_of]

\* the ingest calls a caller can make: the ingestor and how it was built
\* (llm given or not, extract_community_summaries, graph_extractor, ontology),
\* and the file
IngestCall(class, llm, summaries, graph_extractor, ontology, kb, file) ==
    [ingestor |-> class, llm |-> llm, extract_community_summaries |-> summaries,
     graph_extractor |-> graph_extractor, ontology |-> ontology,
     knowledge_base |-> kb, file |-> file]

\* two calls are made on the same ingestor object: one object per class and
\* constructor arguments
SameIngestor(c1, c2) ==
    /\ c1.ingestor = c2.ingestor
    /\ c1.llm = c2.llm
    /\ c1.extract_community_summaries = c2.extract_community_summaries
    /\ c1.graph_extractor = c2.graph_extractor
    /\ c1.ontology = c2.ontology

\* if not self.knowledge_base: self.knowledge_base = knowledge_base
\* (lines 82-83): the id of self.knowledge_base after the test, which is the
\* knowledge base of the first call made on the object
SelfKnowledgeBase(earlier, call) ==
    LET same == {r \in 1..Len(earlier) : SameIngestor(earlier[r].call, call)}
    IN  IF same = {} THEN call.knowledge_base
        ELSE earlier[CHOOSE r \in same : \A q \in same : r <= q].call.knowledge_base

\* the call at its first statement
BeginIngest(call) ==
    /\ ingests' = Append(ingests,
          [call |-> call, ingestor |-> call.ingestor, file |-> call.file,
           self_knowledge_base |-> SelfKnowledgeBase(ingests, call),
           pc |-> IF call.ingestor = "PropertyGraphIngestor"
                  THEN "extract" ELSE "add_documents",
           graph_before |-> NodesAndEdges(store), responses |-> <<>>,
           entities |-> <<>>, triplets |-> <<>>, k |-> 0,
           node_labels |-> {"Chunk"}, relationship_labels |-> {"SIMILAR"},
           edges |-> {}, community_data |-> {}, community_triplets |-> <<>>,
           community_summaries |-> {},
           interpolated |-> {},
           queries |-> 0, error |-> ""])
    /\ UNCHANGED <<store, uuidsDrawn>>
    /\ UNCHANGED nonGraphVars

\* an ingest call made when no other call is running
StartIngest(offered) ==
    /\ Len(ingests) < MaxIngests
    /\ \A r \in 1..Len(ingests) : ingests[r].pc \in {"done", "raised"}
    /\ \E call \in offered : BeginIngest(call)

\* an ingest call made by a background task while others may be running, for
\* a file no running call has
StartOverlappingIngest(offered) ==
    /\ Len(ingests) < MaxOverlappingIngests
    /\ \E call \in offered :
        /\ \A r \in 1..Len(ingests) :
              ingests[r].file = call.file => ingests[r].pc \in {"done", "raised"}
        /\ BeginIngest(call)

\* the run raised: the call is over
Raised(run, error) == [run EXCEPT !.pc = "raised", !.error = error]

\* if self.extract_community_summaries: if not self.llm: raise ValueError(...)
CheckSummaries(run) ==
    IF ~run.call.extract_community_summaries THEN [run EXCEPT !.pc = "done"]
    ELSE IF ~run.call.llm THEN Raised(run, "ValueError")
    ELSE [run EXCEPT !.pc = "project"]

\* an ingest that would go to the loop over the triplets without the loop
\* over the entities
SettleSkippingEntities(run) ==
    LET r1 == IF run.pc = "entities"
              THEN [run EXCEPT !.pc = "triplets", !.k = 0] ELSE run
    IN  IF r1.pc = "triplets" /\ r1.k = Len(r1.triplets)
        THEN CheckSummaries(r1) ELSE r1

\* the statement the call is at once the loops that have nothing left to do
\* are passed
Settle(run) ==
    LET r1 == IF run.pc = "entities" /\ run.k = Len(run.entities)
              THEN [run EXCEPT !.pc = "triplets", !.k = 0] ELSE run
    IN  IF r1.pc = "triplets" /\ r1.k = Len(r1.triplets)
        THEN CheckSummaries(r1) ELSE r1

\* LexicalGraphIngestor.ingest: document_ids = self._build_vectorstore(documents)
LexAddDocuments(r) ==
    /\ ingests[r].pc = "add_documents"
    /\ store' = AddDocuments(store, ingests[r].file, DocumentsOf(ingests[r]))
    /\ ingests' = [ingests EXCEPT ![r].pc = "file_node", ![r].queries = @ + 1]
    /\ UNCHANGED uuidsDrawn
    /\ UNCHANGED nonGraphVars

\* LexicalGraphIngestor.ingest: self._create_file_node(file_metadata), and
\* the read of the embeddings at the start of _build_lexical_graph
LexCreateFileNode(r) ==
    /\ ingests[r].pc = "file_node"
    /\ store' = CreateFileNode(store, ingests[r].file)
    /\ ingests' = [ingests EXCEPT ![r].pc = "search", ![r].k = 0,
                                  ![r].queries = @ + 2]
    /\ UNCHANGED uuidsDrawn
    /\ UNCHANGED nonGraphVars

\* similarity_search_with_score_by_vector(embedding, 3): at most three chunks
\* of the index, whatever their file, each with its score
SimilaritySearchWithScore(g, scores) ==
    UNION {[ids -> scores] :
             ids \in {x \in SUBSET {c.id : c \in g.chunks} :
                         Cardinality(x) <= SimilarityK}}

\* _get_lexical_edges, one turn of the outer loop: the matches other than the
\* document itself whose score is above the threshold
LexicalEdges(doc_id, found) ==
    {[from |-> doc_id, to |-> d, score |-> found[d]] :
        d \in {x \in DOMAIN found : x # doc_id /\ found[x] > LexicalThreshold}}

\* _get_lexical_edges: the search for the next document, the index scoring
\* with one of the given scores
LexSimilaritySearchWith(r, scores) ==
    /\ ingests[r].pc = "search"
    /\ ingests[r].k < Len(DocumentsOf(ingests[r]))
    /\ \E found \in SimilaritySearchWithScore(store, scores) :
         ingests' = [ingests EXCEPT
            ![r].edges = @ \cup LexicalEdges(DocumentsOf(ingests[r])[ingests[r].k + 1],
                                             found),
            ![r].k = @ + 1,
            ![r].queries = @ + 1]
    /\ UNCHANGED <<store, uuidsDrawn>>
    /\ UNCHANGED nonGraphVars

LexSimilaritySearch(r) == LexSimilaritySearchWith(r, Scores)

RECURSIVE ConnectAll(_, _)
ConnectAll(g, edges) ==
    IF edges = {} THEN g
    ELSE LET e == CHOOSE x \in edges : TRUE
         IN  ConnectAll(ConnectSimilarChunks(g, e), edges \ {e})

\* _connect_similar_chunks(edges), and the test of self.graph_extractor
LexConnectSimilarChunks(r) ==
    /\ ingests[r].pc = "search"
    /\ ingests[r].k = Len(DocumentsOf(ingests[r]))
    /\ store' = ConnectAll(store, ingests[r].edges)
    /\ ingests' = [ingests EXCEPT
          ![r].pc = IF ingests[r].call.graph_extractor THEN "extract" ELSE "done",
          ![r].k = 0,
          ![r].queries = @ + Cardinality(ingests[r].edges)]
    /\ UNCHANGED uuidsDrawn
    /\ UNCHANGED nonGraphVars

\* the extraction of the file: the loop over the documents and the id
\* reassignment of the ingestor, or graph_extractor.extract(documents); an
\* ingestor of the property graph that has no llm fails at its first call
ExtractFileWith(r, responses) ==
    /\ ingests[r].pc = "extract"
    /\ LET run == ingests[r] IN
       IF run.ingestor = "PropertyGraphIngestor" /\ ~run.call.llm
       THEN /\ ingests' = [ingests EXCEPT ![r] = Raised(run, "AttributeError")]
            /\ UNCHANGED uuidsDrawn
       ELSE \/ /\ ingests' = [ingests EXCEPT
                                ![r] = Raised(run, "OutputParserException")]
               /\ UNCHANGED uuidsDrawn
            \/ \E resp \in responses :
                 LET out == Extracted(IF run.ingestor = "PropertyGraphIngestor"
                                      THEN "PropertyGraphIngestor"
                                      ELSE "GraphExtractor",
                                      resp, DocumentsOf(run), uuidsDrawn)
                 IN  /\ ingests' = [ingests EXCEPT ![r] =
                            Settle([run EXCEPT !.responses = resp,
                                               !.entities = out.entities,
                                               !.triplets = out.triplets,
                                               !.pc = "entities", !.k = 0])]
                     /\ uuidsDrawn' = uuidsDrawn + Len(out.entities)
    /\ UNCHANGED store
    /\ UNCHANGED nonGraphVars

\* the extraction with any of the responses of the language model
ExtractFile(r) == ExtractFileWith(r, FileResponses(DocumentsOf(ingests[r])))

\* for entity in entities: node_labels.append(entity.entity_label);
\* self._create_entity_and_links(entity, file_metadata)
WriteEntity(r) ==
    /\ ingests[r].pc = "entities"
    /\ LET run == ingests[r]
           entity == run.entities[run.k + 1]
       IN  /\ store' = CreateEntityAndLinks(store, run.ingestor, entity,
                                            run.self_knowledge_base, run.file)
           /\ ingests' = [ingests EXCEPT ![r] =
                 Settle([run EXCEPT
                    !.k = @ + 1,
                    !.node_labels = @ \cup {entity.entity_label},
                    !.interpolated = @ \cup {<<"label", entity.entity_label>>},
                    !.queries = @ + 1 + Cardinality(entity.doc_ids)])]
    /\ UNCHANGED uuidsDrawn
    /\ UNCHANGED nonGraphVars

\* for triplet in triplets: relationship_labels.append(triplet.relationship);
\* self._create_triplet_relationship(triplet)
WriteTriplet(r) ==
    /\ ingests[r].pc = "triplets"
    /\ LET run == ingests[r]
           triplet == run.triplets[run.k + 1]
       IN  /\ store' = CreateTripletRelationship(store, triplet)
           /\ ingests' = [ingests EXCEPT ![r] =
                 Settle([run EXCEPT
                    !.k = @ + 1,
                    !.relationship_labels = @ \cup {triplet.relationship},
                    !.interpolated = @ \cup {<<"relationship", triplet.relationship>>},
                    !.queries = @ + 1])]
    /\ UNCHANGED uuidsDrawn
    /\ UNCHANGED nonGraphVars

\* gds.graph.project('kg', ...) alone: the catalog of the engine is not part
\* of the transaction, so the projection stays when the query fails later
ProjectOnly(g) == [g EXCEPT !.projected = TRUE]

\* _make_community_nodes, first query: the projection named 'kg' and the
\* detection; the engine refuses a projection under a name the catalog has,
\* and gds.leiden.write can fail once the projection is made
ProjectCommunities(r) ==
    /\ ingests[r].pc = "project"
    /\ IF store.projected
       THEN /\ ingests' = [ingests EXCEPT
                             ![r] = Raised([ingests[r] EXCEPT !.queries = @ + 1],
                                           "ClientError")]
            /\ UNCHANGED store
       ELSE \/ \E detected \in [ProjectedIds(store, ingests[r].node_labels)
                                  -> RawCommunityIds] :
               /\ store' = ProjectAndDetect(store, ingests[r].node_labels, detected)
               /\ ingests' = [ingests EXCEPT ![r].pc = "drop", ![r].queries = @ + 1]
            \/ /\ store' = ProjectOnly(store)
               /\ ingests' = [ingests EXCEPT
                                ![r] = Raised([ingests[r] EXCEPT !.queries = @ + 1],
                                              "LeidenError")]
    /\ UNCHANGED uuidsDrawn
    /\ UNCHANGED nonGraphVars

\* _make_community_nodes, second query: the projection is dropped
DropCommunityProjection(r) ==
    /\ ingests[r].pc = "drop"
    /\ store' = DropProjection(store)
    /\ ingests' = [ingests EXCEPT ![r].pc = "namespace", ![r].queries = @ + 1]
    /\ UNCHANGED uuidsDrawn
    /\ UNCHANGED nonGraphVars

\* _make_community_nodes, third query
NamespaceCommunities(r) ==
    /\ ingests[r].pc = "namespace"
    /\ store' = NamespaceCommunityIds(store, ingests[r].file)
    /\ ingests' = [ingests EXCEPT ![r].pc = "communities", ![r].queries = @ + 1]
    /\ UNCHANGED uuidsDrawn
    /\ UNCHANGED nonGraphVars

\* _make_community_nodes, fourth query
CreateCommunities(r) ==
    /\ ingests[r].pc = "communities"
    /\ store' = MergeCommunities(store, ingests[r].ingestor, ingests[r].file,
                                 ingests[r].self_knowledge_base)
    /\ ingests' = [ingests EXCEPT ![r].pc = "fetch", ![r].queries = @ + 1]
    /\ UNCHANGED uuidsDrawn
    /\ UNCHANGED nonGraphVars

\* _generate_community_summaries, the read of the communities: with no
\* community to summarise the method returns
FetchCommunities(r) ==
    /\ ingests[r].pc = "fetch"
    /\ LET data == CommunityData(store, ingests[r].file)
       IN  ingests' = [ingests EXCEPT
              ![r].community_data = data,
              ![r].community_triplets = [c \in data |-> CommunityTriplets(store, c)],
              ![r].pc = IF data = {} THEN "done" ELSE "summarize",
              ![r].queries = @ + 1]
    /\ UNCHANGED <<store, uuidsDrawn>>
    /\ UNCHANGED nonGraphVars

\* _generate_community_summaries, the loop and the write: the call of the
\* language model succeeds for some communities and fails for the others;
\* with no summary at all the method returns before the write
SummarizeCommunities(r) ==
    /\ ingests[r].pc = "summarize"
    /\ \E summarized \in SUBSET ingests[r].community_data :
         /\ store' = IF summarized = {} THEN store
                     ELSE WriteCommunitySummaries(store, ingests[r].ingestor,
                                                  summarized)
         /\ ingests' = [ingests EXCEPT
               ![r].pc = "done",
               ![r].community_summaries = summarized,
               ![r].queries = @ + (IF summarized = {} THEN 0 ELSE 1)]
    /\ UNCHANGED uuidsDrawn
    /\ UNCHANGED nonGraphVars

InitGraphVars ==
    /\ store = EmptyGraph
    /\ ingests = <<>>
    /\ uuidsDrawn = 0

(***************************************************************************)
(* Specifications of one tool call.                                        *)
(***************************************************************************)
InitDriftVars(cfgs) ==
    /\ toolPc = "idle"
    /\ config \in cfgs
    /\ stack = <<>>
    /\ nodes = <<>>
    /\ calls = <<>>
    /\ root = 0
    /\ facts = <<>>
    /\ output = ""

\* general searches: every configuration, short follow-up lists, a bounded tree
InitDrift ==
    InitDriftVars(DriftConfigs) /\ InitExtractVars({"GraphExtractor"}) /\ InitKbVars /\ InitGraphVars /\ InitServiceVars

PrimerSearchGeneral == PrimerSearch(Answers, Questions, MaxReturned, MaxTreeNodes)

NextDrift ==
    \/ StartSearch
    \/ ExpandQuery
    \/ VectorSearch
    \/ PrimerSearchGeneral
    \/ RecurseFollowUp
    \/ ReturnFromLoop
    \/ CollectAndFormat

SpecDrift == InitDrift /\ [][NextDrift]_vars

\* termination does not depend on the answers: the same searches with one
\* answer, under the assumption that every language-model and vector-store
\* call returns
PrimerSearchOneAnswer == PrimerSearch(WideAnswers, Questions, MaxReturned, MaxTreeNodes)

NextDriftFair ==
    \/ StartSearch
    \/ ExpandQuery
    \/ VectorSearch
    \/ PrimerSearchOneAnswer
    \/ RecurseFollowUp
    \/ ReturnFromLoop
    \/ CollectAndFormat

SpecDriftFair == InitDrift /\ [][NextDriftFair]_vars /\ WF_vars(NextDriftFair)

\* wide searches: max_depth = 2, max_follow_ups = 3, long follow-up lists
ConfigOfMain ==
    [top_k |-> ConfiguredTopK, max_depth |-> 2, max_follow_ups |-> ConfiguredFollowUps]

InitDriftWide ==
    InitDriftVars({ConfigOfMain}) /\ InitExtractVars({"GraphExtractor"}) /\ InitKbVars /\ InitGraphVars /\ InitServiceVars

PrimerSearchWide ==
    PrimerSearch(WideAnswers, WideQuestions, MaxReturnedWide, MaxReturnedWide + 1)

NextDriftWide ==
    \/ StartSearch
    \/ ExpandQuery
    \/ VectorSearch
    \/ PrimerSearchWide
    \/ RecurseFollowUp
    \/ ReturnFromLoop
    \/ CollectAndFormat

SpecDriftWide == InitDriftWide /\ [][NextDriftWide]_vars

(***************************************************************************)
(* Specifications of one extraction run.                                   *)
(***************************************************************************)
InitExtract ==
    InitDriftVars({ConfigOfMain}) /\ InitExtractVars(ExtractorClasses) /\ InitKbVars /\ InitGraphVars /\ InitServiceVars

ApplyOntologyToAnyDoc == ApplyOntologyToDoc(AnyResponse)

NextExtract ==
    \/ StartExtraction
    \/ ApplyOntologyToAnyDoc
    \/ MergeNextEntity
    \/ ExtendTriplets
    \/ ReassignByIngestor
    \/ ReassignByExtractor

SpecExtract == InitExtract /\ [][NextExtract]_vars

(***************************************************************************)
(* The two-chunk scenario: the language model returns a Driver and a Team  *)
(* with a works_for triplet from the Driver to the Team for the first      *)
(* chunk, and the same Driver id again for the second chunk.               *)
(***************************************************************************)
ScenarioEntities(label) ==
    {e \in LMEntities : e.entity_label = label /\ e.doc_ids = {}}

ScenarioResponses ==
    IF docIdx = 0
    THEN {EntityRelationships(es, <<Triplet(es[1].id, "works_for", es[2].id)>>) :
            es \in {x \in ScenarioEntities("Driver") \X ScenarioEntities("Team") :
                       x[1].id # x[2].id}}
         \cup
         {EntityRelationships(<<es[2], es[1]>>,
                              <<Triplet(es[1].id, "works_for", es[2].id)>>) :
            es \in {x \in ScenarioEntities("Driver") \X ScenarioEntities("Team") :
                       x[1].id # x[2].id}}
    ELSE {EntityRelationships(<<d>>, <<>>) :
            d \in {e \in ScenarioEntities("Driver") :
                     \E k \in 1..Len(entity_storage) :
                        /\ entity_storage[k].entity_label = "Driver"
                        /\ entity_storage[k].id = e.id}}

ApplyOntologyToScenarioDoc == ApplyOntologyToDoc(ScenarioResponses)

NextScenario ==
    \/ StartExtraction
    \/ ApplyOntologyToScenarioDoc
    \/ MergeNextEntity
    \/ ExtendTriplets
    \/ ReassignByIngestor
    \/ ReassignByExtractor

SpecScenario == InitExtract /\ [][NextScenario]_vars

(***************************************************************************)
(* Specification of the ingestion runs against the registry.               *)
(***************************************************************************)
InitOntology ==
    InitDriftVars({ConfigOfMain}) /\ InitExtractVars({"PropertyGraphIngestor"}) /\ InitKbVars /\ InitGraphVars /\ InitServiceVars

NextOntology ==
    \/ IngestRequest
    \/ \E r \in 1..Len(runs) : PipelineUpsert(r)
    \/ \E r \in 1..Len(runs) : ResolveOntology(r)
    \/ \E r \in 1..Len(runs) : FinishFile(r)
    \/ \E r \in 1..Len(runs) : ExtractionRaises(r)
    \/ \E r \in 1..Len(runs) : PipelineAbortFile(r)

SpecOntology == InitOntology /\ [][NextOntology]_vars

(***************************************************************************)
(* Specification of one ingestion run over its batch of files.             *)
(***************************************************************************)
\* the first request the API receives
FirstIngestRequest == runs = <<>> /\ IngestRequest

NextBatch ==
    \/ FirstIngestRequest
    \/ \E r \in 1..Len(runs) : PipelineUpsert(r)
    \/ \E r \in 1..Len(runs) : ResolveOntology(r)
    \/ \E r \in 1..Len(runs) : FinishFile(r)
    \/ \E r \in 1..Len(runs) : ExtractionRaises(r)
    \/ \E r \in 1..Len(runs) : PipelineAbortFile(r)

SpecBatch == InitOntology /\ [][NextBatch]_vars

(***************************************************************************)
(* Specification of the calls on the KnowledgeBaseService.                 *)
(***************************************************************************)
NextRegistry == CreateCall \/ UpsertCall \/ GetByIdCall

SpecRegistry == InitOntology /\ [][NextRegistry]_vars

(***************************************************************************)
(* Specifications of the ingest calls against the graph store.             *)
(***************************************************************************)
InitStore ==
    InitDriftVars({ConfigOfMain}) /\ InitExtractVars({"PropertyGraphIngestor"}) /\ InitKbVars /\ InitGraphVars /\ InitServiceVars

\* LexicalGraphIngestor(vector_store) without graph_extractor and without
\* community summaries: the chunks, the File node and the SIMILAR edges
LexicalOnlyCalls ==
    {IngestCall("LexicalGraphIngestor", FALSE, FALSE, FALSE, None, GraphKb, f) :
        f \in GraphFiles}

StartLexicalIngest == StartIngest(LexicalOnlyCalls)

LexSimilaritySearchTwoAbove(r) == LexSimilaritySearchWith(r, TwoScoresAbove)

NextLexical ==
    \/ StartLexicalIngest
    \/ \E r \in 1..Len(ingests) : LexAddDocuments(r)
    \/ \E r \in 1..Len(ingests) : LexCreateFileNode(r)
    \/ \E r \in 1..Len(ingests) : LexSimilaritySearchTwoAbove(r)
    \/ \E r \in 1..Len(ingests) : LexConnectSimilarChunks(r)

SpecLexical == InitStore /\ [][NextLexical]_vars

\* the ontology the ingestors of the property graph are built with
GivenOntology ==
    [entity_labels |-> <<"Driver">>, relationship_rules |-> <<>>]

\* PropertyGraphIngestor(llm, vector_store, extract_community_summaries,
\* ontology, ...) and ingest(knowledge_base, file_metadata, documents)
PropertyGraphCalls ==
    {IngestCall("PropertyGraphIngestor", llm, TRUE, FALSE, Some(GivenOntology), GraphKb, f) :
        llm \in BOOLEAN, f \in GraphFiles}

\* LexicalGraphIngestor(vector_store, lexical_threshold,
\* extract_community_summaries, llm, graph_extractor) and ingest(...)
LexicalGraphCalls ==
    {IngestCall("LexicalGraphIngestor", llm, TRUE, ge, None, GraphKb, f) :
        llm \in BOOLEAN, ge \in BOOLEAN, f \in GraphFiles}

StartAnyIngest == StartIngest(PropertyGraphCalls \cup LexicalGraphCalls)

NextStore ==
    \/ StartAnyIngest
    \/ \E r \in 1..Len(ingests) : LexAddDocuments(r)
    \/ \E r \in 1..Len(ingests) : LexCreateFileNode(r)
    \/ \E r \in 1..Len(ingests) : LexSimilaritySearch(r)
    \/ \E r \in 1..Len(ingests) : LexConnectSimilarChunks(r)
    \/ \E r \in 1..Len(ingests) : ExtractFile(r)
    \/ \E r \in 1..Len(ingests) : WriteEntity(r)
    \/ \E r \in 1..Len(ingests) : WriteTriplet(r)
    \/ \E r \in 1..Len(ingests) : ProjectCommunities(r)
    \/ \E r \in 1..Len(ingests) : DropCommunityProjection(r)
    \/ \E r \in 1..Len(ingests) : NamespaceCommunities(r)
    \/ \E r \in 1..Len(ingests) : CreateCommunities(r)
    \/ \E r \in 1..Len(ingests) : FetchCommunities(r)
    \/ \E r \in 1..Len(ingests) : SummarizeCommunities(r)

SpecStore == InitStore /\ [][NextStore]_vars

(***************************************************************************)
(* Specification of the ingest calls made on one PropertyGraphIngestor     *)
(* for several knowledge bases, community summaries switched off.          *)
(***************************************************************************)
OneIngestorCalls ==
    {IngestCall("PropertyGraphIngestor", TRUE, FALSE, FALSE, Some(GivenOntology), kb, f) :
        kb \in GraphKbs, f \in GraphFiles}

StartIngestOnOneIngestor == StartIngest(OneIngestorCalls)

NextInstance ==
    \/ StartIngestOnOneIngestor
    \/ \E r \in 1..Len(ingests) : ExtractFile(r)
    \/ \E r \in 1..Len(ingests) : WriteEntity(r)
    \/ \E r \in 1..Len(ingests) : WriteTriplet(r)

SpecInstance == InitStore /\ [][NextInstance]_vars

(***************************************************************************)
(* Specification of ingest calls in which the language model returns       *)
(* property maps with a key "id".                                          *)
(***************************************************************************)
PlainCalls ==
    {IngestCall("PropertyGraphIngestor", TRUE, FALSE, FALSE, Some(GivenOntology), GraphKb, f) :
        f \in GraphFiles}

StartPlainIngest == StartIngest(PlainCalls)

ExtractKeyed(r) == ExtractFileWith(r, KeyedResponses(DocumentsOf(ingests[r])))

NextKeys ==
    \/ StartPlainIngest
    \/ \E r \in 1..Len(ingests) : ExtractKeyed(r)
    \/ \E r \in 1..Len(ingests) : WriteEntity(r)

SpecKeys == InitStore /\ [][NextKeys]_vars

(***************************************************************************)
(* Specification of ingest calls of the property graph that overlap, as    *)
(* the background tasks of the API do.                                     *)
(***************************************************************************)
OverlappingCalls ==
    {IngestCall("PropertyGraphIngestor", TRUE, TRUE, FALSE, Some(GivenOntology), GraphKb, f) :
        f \in GraphFiles}

StartBackgroundIngest == StartOverlappingIngest(OverlappingCalls)

ExtractOneDriver(r) == ExtractFileWith(r, DriverResponses(DocumentsOf(ingests[r])))

NextOverlap ==
    \/ StartBackgroundIngest
    \/ \E r \in 1..Len(ingests) : ExtractOneDriver(r)
    \/ \E r \in 1..Len(ingests) : WriteEntity(r)
    \/ \E r \in 1..Len(ingests) : ProjectCommunities(r)
    \/ \E r \in 1..Len(ingests) : DropCommunityProjection(r)
    \/ \E r \in 1..Len(ingests) : NamespaceCommunities(r)
    \/ \E r \in 1..Len(ingests) : CreateCommunities(r)
    \/ \E r \in 1..Len(ingests) : FetchCommunities(r)

SpecOverlap == InitStore /\ [][NextOverlap]_vars

(***************************************************************************)
(* Properties of the DRIFT retriever and the answer aggregation.           *)
(***************************************************************************)
\* the size of the subtree of node n
RECURSIVE TreeSize(_, _)
TreeSize(nds, n) ==
    1 + SumSeq([k \in 1..Len(nds[n].children) |-> TreeSize(nds, nds[n].children[k])])

\* the creation order 1..Len(nds) is the pre-order of the tree rooted at 1:
\* a first child directly follows its parent, a later child directly follows
\* the whole subtree of the sibling before it
IsPreOrderNumbering(nds) ==
    /\ TreeSize(nds, 1) = Len(nds)
    /\ \A n \in 1..Len(nds) :
         \A k \in 1..Len(nds[n].children) :
            nds[n].children[k] =
               IF k = 1 THEN n + 1
               ELSE nds[n].children[k - 1] + TreeSize(nds, nds[n].children[k - 1])

\* the calls still running, as node indices
Running == {stack[k].node : k \in 1..Len(stack)} \ {0}

\* C1: with max_depth = 2 and max_follow_ups = 3 the tree drift_search builds
\* never has more than 13 nodes and no node is built deeper than depth 2,
\* whatever the language model and the vector store return.
C1_TreeWithin13Nodes ==
    (MaxDepthOf(config) = 2 /\ config["max_follow_ups"] = 3)
        => /\ Len(nodes) <= 13
           /\ \A n \in 1..Len(calls) : calls[n].depth <= 2

\* C2: every drift_search call terminates when each language-model and
\* vector-store call returns, and no recursive call runs deeper than max_depth.
C2_Terminates ==
    /\ (toolPc = "searching") ~> (stack = <<>> /\ root # 0)
    /\ [](\A k \in 2..Len(stack) : stack[k].depth <= MaxDepthOf(config))

\* C2 witness: a search that recursed down to max_depth has returned its tree
C2_Witness ==
    /\ toolPc = "done"
    /\ Len(nodes) >= 3
    /\ \E n \in 1..Len(calls) : calls[n].depth = MaxDepthOf(config) /\ calls[n].depth >= 2

\* C3: once the call that built a node has returned, a node built at
\* depth < max_depth has exactly one child per follow-up question returned for
\* it, in the returned order, child i being the node built for follow-up i one
\* level deeper; a node built at depth >= max_depth, or with no follow-ups,
\* has no children. While the call is still running the children built so far
\* are the first follow-ups, in order.
C3_ChildrenMatchFollowUps ==
    \A n \in 1..Len(nodes) :
        LET fu == calls[n].follow_up_questions
            ch == nodes[n].children
        IN  /\ calls[n].depth >= MaxDepthOf(config) => ch = <<>>
            /\ n \notin Running => Len(ch) = Len(fu)
            /\ Len(ch) <= Len(fu)
            /\ \A i \in 1..Len(ch) :
                 /\ nodes[ch[i]].query = fu[i]
                 /\ calls[ch[i]].depth = calls[n].depth + 1

\* C3 witness: a returned tree whose root has two children for two different
\* follow-ups
C3_Witness ==
    /\ toolPc = "done"
    /\ Len(nodes[root].children) = 2
    /\ calls[root].follow_up_questions = <<"q2", "q1">>
    /\ nodes[nodes[root].children[1]].query = "q2"

\* C4: collect_answers returns the non-empty answers in pre-order: the nodes
\* are numbered in pre-order and the facts are their non-empty answers by
\* number; a root "A" with children "B" and "C" gives exactly <<"A","B","C">>.
C4_PreOrderAnswers ==
    toolPc = "done" =>
        /\ IsPreOrderNumbering(nodes)
        /\ facts = SelectSeq([n \in 1..Len(nodes) |-> nodes[n].answer],
                             LAMBDA a : a # "")
        /\ (/\ Len(nodes) = 3
            /\ nodes[1].answer = "A" /\ nodes[1].children = <<2, 3>>
            /\ nodes[2].answer = "B" /\ nodes[3].answer = "C")
               => facts = <<"A", "B", "C">>

\* C4 witness: the tree root "A" with children "B" and "C" has been collected
C4_Witness ==
    /\ toolPc = "done"
    /\ Len(nodes) = 3
    /\ nodes[1].answer = "A" /\ nodes[1].children = <<2, 3>>
    /\ nodes[2].answer = "B" /\ nodes[3].answer = "C"

\* C4 witness of the general case: a three-level tree with an empty answer
C4_WitnessDeep ==
    /\ toolPc = "done"
    /\ Len(nodes) = 3
    /\ \E n \in 1..3 : calls[n].depth = 3
    /\ \E n \in 1..3 : nodes[n].answer = ""
    /\ Len(facts) = 2

AnswersOf(nds) == {nds[n].answer : n \in 1..Len(nds)}
FactsOf(fs) == {fs[k] : k \in 1..Len(fs)}

\* C5 as stated: no empty or whitespace-only answer is in the list
\* collect_answers returns, and every other answer is.
C5_NoBlankFactCollected ==
    toolPc = "done" =>
        /\ \A f \in FactsOf(facts) : Strip(f) # ""
        /\ \A a \in AnswersOf(nodes) : Strip(a) # "" => a \in FactsOf(facts)

\* C5, amended: collect_answers drops exactly the empty answers (a
\* whitespace-only answer is kept); _format_facts then drops the
\* whitespace-only ones, so the formatted facts are exactly the answers that
\* are neither empty nor whitespace only, in pre-order.
C5_BlankFactsDroppedByFormat ==
    toolPc = "done" =>
        LET real == SelectSeq([n \in 1..Len(nodes) |-> nodes[n].answer],
                              LAMBDA a : a \notin {"", " "})
        IN  /\ FactsOf(facts) = AnswersOf(nodes) \ {""}
            /\ output = IF real = <<>>
                        THEN "No relevant facts found."
                        ELSE "### Relevant Facts\n"
                             \o Join("\n", [k \in 1..Len(real) |-> "- " \o real[k]])

\* C5 witness: a tree with an empty, a whitespace-only and a real answer
C5_Witness ==
    /\ toolPc = "done"
    /\ {"", " ", "A"} \subseteq AnswersOf(nodes)
    /\ " " \in FactsOf(facts)
    /\ output = "### Relevant Facts\n- A"

(***************************************************************************)
(* Properties of the extraction loop and the id reassignment.              *)
(***************************************************************************)
\* the merge policy for one returned entity ent of chunk doc, between the
\* storage before (old) and after (new)
MergedAsSpecified(old, new, ent, doc) ==
    IF \E k \in 1..Len(old) : old[k].id = ent.id
    THEN /\ Len(new) = Len(old)
         /\ \A k \in 1..Len(old) :
              IF old[k].id = ent.id
              THEN /\ new[k].id = old[k].id
                   /\ new[k].entity_label = old[k].entity_label
                   /\ new[k].doc_ids = old[k].doc_ids \cup {doc}
                   /\ DOMAIN new[k].properties =
                         DOMAIN old[k].properties \cup DOMAIN ent.properties
                   /\ \A key \in DOMAIN ent.properties :
                         new[k].properties[key] = ent.properties[key]
                   /\ \A key \in DOMAIN old[k].properties \ DOMAIN ent.properties :
                         new[k].properties[key] = old[k].properties[key]
              ELSE new[k] = old[k]
    ELSE new = Append(old, Entity(ent.id, ent.entity_label, ent.properties, {doc}))

\* C6: merging a returned entity whose id is stored adds the chunk id to the
\* stored doc_ids and merges the returned properties into the stored ones
\* (returned value wins, other keys kept, label unchanged); otherwise the
\* entity is inserted with doc_ids = {chunk id}; merging the same entity for
\* the same chunk once more changes nothing.
C6_MergePolicy ==
    [][(exPc = "merge" /\ entIdx' = entIdx + 1) =>
          LET ent == extraction.entities[entIdx + 1]
              doc == Documents[docIdx + 1]
          IN  /\ MergedAsSpecified(entity_storage, entity_storage', ent, doc)
              /\ MergeEntity(entity_storage', ent, doc) = entity_storage']_vars

\* C6 for the entities returned without doc_ids: the only case in which the
\* merge policy fails is an inserted entity that brings doc_ids of its own
C6_MergePolicyWithoutReturnedDocIds ==
    [][(/\ exPc = "merge" /\ entIdx' = entIdx + 1
        /\ extraction.entities[entIdx + 1].doc_ids = {}) =>
          LET ent == extraction.entities[entIdx + 1]
              doc == Documents[docIdx + 1]
          IN  /\ MergedAsSpecified(entity_storage, entity_storage', ent, doc)
              /\ MergeEntity(entity_storage', ent, doc) = entity_storage']_vars

IdsOf(entities) == {entities[k].id : k \in 1..Len(entities)}

\* C7: after the id reassignment the output entities have pairwise distinct
\* ids, one output entity per stored entity, and every output triplet's
\* source_id and target_id are ids of output entities.
C7_NoCollisionNoDangling ==
    exPc = "done" =>
        /\ Len(new_entities) = Len(entity_storage)
        /\ \A j, k \in 1..Len(new_entities) :
              new_entities[j].id = new_entities[k].id => j = k
        /\ \A k \in 1..Len(new_triplets) :
              /\ new_triplets[k].source_id \in IdsOf(new_entities)
              /\ new_triplets[k].target_id \in IdsOf(new_entities)

\* C7 witness: a run of PropertyGraphIngestor that returned two entities and
\* a triplet between them
C7_Witness ==
    /\ exPc = "done"
    /\ extractor = "PropertyGraphIngestor"
    /\ Len(new_entities) = 2
    /\ Len(new_triplets) >= 1

\* C7 witness for a dropped triplet: one stored entity, a triplet to an id
\* that was never stored
C7_WitnessDropped ==
    /\ exPc = "done"
    /\ extractor = "PropertyGraphIngestor"
    /\ Len(new_entities) = 1
    /\ Len(triplets) >= 1
    /\ new_triplets = <<>>

\* C8: PropertyGraphIngestor's reassignment outputs, in input order and
\* without deduplication, exactly the accumulated triplets whose source and
\* target are ids of final entities, with both endpoints replaced by the new
\* id of the entity at the same position and the relationship unchanged.
C8_TripletsRewritten ==
    (exPc = "done" /\ extractor = "PropertyGraphIngestor") =>
        LET stored == IdsOf(entity_storage)
            NewId(id) == new_entities[StorageIndex(entity_storage, id)].id
            kept == SelectSeq(triplets, LAMBDA t : /\ t.source_id \in stored
                                                   /\ t.target_id \in stored)
        IN  /\ Len(new_triplets) = Len(kept)
            /\ \A k \in 1..Len(kept) :
                 /\ new_triplets[k].source_id = NewId(kept[k].source_id)
                 /\ new_triplets[k].target_id = NewId(kept[k].target_id)
                 /\ new_triplets[k].relationship = kept[k].relationship

\* C8 witness: the same triplet accumulated twice comes out twice
C8_Witness ==
    /\ exPc = "done"
    /\ extractor = "PropertyGraphIngestor"
    /\ Len(triplets) = 2 /\ triplets[1] = triplets[2]
    /\ Len(new_triplets) = 2 /\ new_triplets[1] = new_triplets[2]
    /\ new_triplets[1].source_id # new_triplets[1].target_id

\* C9: in the two-chunk scenario GraphExtractor.extract returns exactly one
\* Driver entity with two doc_ids, one Team entity, and one works_for triplet
\* from the new id of the Driver to the new id of the Team.
C9_ScenarioOutput ==
    (exPc = "done" /\ extractor = "GraphExtractor") =>
        /\ Len(new_entities) = 2
        /\ \E d, t \in 1..2 :
             /\ new_entities[d].entity_label = "Driver"
             /\ Cardinality(new_entities[d].doc_ids) = 2
             /\ new_entities[t].entity_label = "Team"
             /\ new_triplets = <<Triplet(new_entities[d].id, "works_for",
                                         new_entities[t].id)>>

\* C9, the entities alone: one Driver with two doc_ids and one Team
C9_ScenarioEntities ==
    exPc = "done" =>
        /\ Len(new_entities) = 2
        /\ \E d, t \in 1..2 :
             /\ new_entities[d].entity_label = "Driver"
             /\ new_entities[d].doc_ids = {"d1", "d2"}
             /\ new_entities[t].entity_label = "Team"
             /\ new_entities[t].doc_ids = {"d1"}

\* C9 for the other class: PropertyGraphIngestor returns the scenario's triplet
C9_ScenarioOutputOfIngestor ==
    (exPc = "done" /\ extractor = "PropertyGraphIngestor") =>
        \E d, t \in 1..2 :
             /\ new_entities[d].entity_label = "Driver"
             /\ new_entities[t].entity_label = "Team"
             /\ new_triplets = <<Triplet(new_entities[d].id, "works_for",
                                         new_entities[t].id)>>

(***************************************************************************)
(* Properties of the ontology resolution.                                  *)
(***************************************************************************)
\* C10: across any sequence of ingestion runs for the same knowledge base id
\* the ontology language-model call is made at most once.
C10_OntologyResolvedOnce ==
    \A id \in KbIds : ontologyCalls[id] <= 1

(***************************************************************************)
(* Properties of the order of the calls of drift_search.                   *)
(***************************************************************************)
\* the subtree of node n is finished: the call that built n has returned
SubtreeComplete(n) == Len(nodes[n].children) = Len(calls[n].follow_up_questions)

\* C20: sibling follow-ups are explored strictly one after another: the only
\* call that takes steps is the innermost one; each suspended caller waits in
\* its loop for the follow-up at its index, having appended exactly the
\* children of the follow-ups before it, each with its whole subtree finished,
\* and no call for a later follow-up has started.
C20_SiblingsSequential ==
    /\ \A k \in 1..(Len(stack) - 1) :
          /\ stack[k].pc = "loop"
          /\ stack[k].i < Len(stack[k].follow_up_questions)
          /\ stack[k + 1].query = stack[k].follow_up_questions[stack[k].i + 1]
          /\ stack[k + 1].depth = stack[k].depth + 1
    /\ \A k \in 1..Len(stack) :
          stack[k].pc = "loop" =>
              Len(nodes[stack[k].node].children) = stack[k].i
    /\ \A n \in 1..Len(nodes) :
          /\ \A c \in 1..Len(nodes[n].children) :
                SubtreeComplete(nodes[n].children[c])
          /\ ~SubtreeComplete(n) =>
                \E k \in 1..Len(stack) : stack[k].pc = "loop" /\ stack[k].node = n

\* C20 witness: the call for the second follow-up has started, after the
\* child of the first one was appended
C20_Witness ==
    /\ Len(stack) = 2
    /\ stack[1].i = 1
    /\ Len(stack[1].follow_up_questions) = 2
    /\ stack[1].follow_up_questions[1] # stack[1].follow_up_questions[2]
    /\ Len(nodes[stack[1].node].children) = 1
    /\ stack[2].pc = "vector"

(***************************************************************************)
(* Properties of the failures of a language-model response to parse.       *)
(***************************************************************************)
FilesRaised(run, error) == {k \in 1..Len(Files) : <<k, error>> \in run.raised}

WithoutLanguageModel ==
    {r \in 1..Len(ingests) :
        ingests[r].call.extract_community_summaries /\ ~ingests[r].call.llm}

\* C11: an ingest call of an ingestor with extract_community_summaries = True
\* and no language model raises the configuration error (ValueError), and
\* raises it before any query against the graph store and before any
\* extraction.
C11_ConfigurationErrorFirst ==
    \A r \in WithoutLanguageModel :
        /\ ingests[r].queries = 0
        /\ ingests[r].entities = <<>>
        /\ ingests[r].pc \in {"done", "raised"} => ingests[r].error = "ValueError"

\* the communities for which the call of the language model succeeded in
\* some ingest call
Summarized == UNION {ingests[r].community_summaries : r \in 1..Len(ingests)}

\* C12: when the language model fails for some communities the ingest call
\* still completes; the communities whose call succeeded have a summary and
\* an embedding, and no other community has a summary.
C12_SummaryAndEmbeddingForSucceeded ==
    /\ \A r \in 1..Len(ingests) :
          ingests[r].community_data # {} => ingests[r].pc # "raised"
    /\ \A c \in store.communities :
          /\ c.id \in Summarized => c.summary # None /\ c.embedding # None
          /\ c.summary # None => c.id \in Summarized

\* ingest call r repeats the call before it: the same ingestor, knowledge
\* base and file, the same chunks and the same responses of the language
\* model, both calls completed
RepeatsPrevious(r) ==
    /\ ingests[r].call = ingests[r - 1].call
    /\ ingests[r].ingestor = "PropertyGraphIngestor"
    /\ ingests[r].responses = ingests[r - 1].responses
    /\ ingests[r].pc = "done" /\ ingests[r - 1].pc = "done"

\* C15: a second PropertyGraphIngestor.ingest with the same knowledge base,
\* file, chunks and responses of the language model leaves the persisted
\* graph as the first call left it: the same nodes and the same edges.
C15_SecondIngestChangesNothing ==
    \A r \in 2..Len(ingests) :
        RepeatsPrevious(r) => NodesAndEdges(store) = ingests[r].graph_before

\* what does hold of a repeated call: the Chunk nodes are not duplicated
C15_ChunksNotDuplicated ==
    \A r \in 2..Len(ingests) :
        RepeatsPrevious(r) =>
            \A c \in store.chunks : c.id \in ingests[r].graph_before.nodes

\* C16: whatever the interleaving of the graph-store operations of ingest
\* calls that overlap, over different files, no call fails in one of those
\* operations: a call ends in an error only when a response of the language
\* model could not be parsed.
C16_OverlappingCallsComplete ==
    \A r \in 1..Len(ingests) :
        ingests[r].pc = "raised" => ingests[r].error = "OutputParserException"

\* the entity labels and the relationship types an ontology allows
AllowedLabels(ontology) ==
    {ontology.entity_labels[k] : k \in 1..Len(ontology.entity_labels)}
AllowedRelationships(ontology) ==
    {ontology.relationship_rules[k][2] : k \in 1..Len(ontology.relationship_rules)}

\* C18: every entity label and every relationship type an ingest call of the
\* PropertyGraphIngestor puts into the text of a query belongs to the
\* ontology the call resolved.
C18_InterpolatedWithinOntology ==
    \A r \in 1..Len(ingests) :
        ingests[r].ingestor = "PropertyGraphIngestor" =>
            \A i \in ingests[r].interpolated :
                /\ i[1] = "label" =>
                      i[2] \in AllowedLabels(ingests[r].call.ontology[1])
                /\ i[1] = "relationship" =>
                      i[2] \in AllowedRelationships(ingests[r].call.ontology[1])

\* the source file of the Chunk node with the given id
SourceOfChunk(g, id) == (CHOOSE c \in g.chunks : c.id = id).source_id

\* C14: every SIMILAR edge connects two distinct chunks that have the same
\* source file id, and its score is above the threshold.
C14_SimilarWithinOneFile ==
    \A e \in store.similar :
        /\ e.from # e.to
        /\ e.score > LexicalThreshold
        /\ SourceOfChunk(store, e.from) = SourceOfChunk(store, e.to)

\* the other conditions of C14: distinct chunks and a score above the threshold
C14_DistinctAndAboveThreshold ==
    \A e \in store.similar : e.from # e.to /\ e.score > LexicalThreshold

\* the number of entities ingest call r has written so far
WrittenCount(r) ==
    IF ingests[r].pc = "extract" THEN 0
    ELSE IF ingests[r].pc = "entities" THEN ingests[r].k
    ELSE Len(ingests[r].entities)

\* C28: after an entity is written its node has the id, the knowledge base id
\* and the source id of the merge key, whatever keys its property map has, and
\* the BELONGS_TO writes that follow found the node by that id.
C28_NodeKeepsMergeKey ==
    \A r \in 1..Len(ingests) :
        ingests[r].ingestor = "PropertyGraphIngestor" =>
            \A k \in 1..WrittenCount(r) :
                LET entity == ingests[r].entities[k] IN
                /\ \E e \in store.entities :
                      MatchesEntityKey(e, "PropertyGraphIngestor", entity,
                                       ingests[r].self_knowledge_base, ingests[r].file)
                /\ \A d \in entity.doc_ids : <<entity.id, d>> \in store.belongs_to

\* C28 for the property maps that have none of the keys of the merge
C28_NodeKeepsMergeKeyWithoutKeyedMaps ==
    \A r \in 1..Len(ingests) :
        ingests[r].ingestor = "PropertyGraphIngestor" =>
            \A k \in 1..WrittenCount(r) :
                LET entity == ingests[r].entities[k] IN
                DOMAIN entity.properties \cap MergeKeys = {} =>
                    /\ \E e \in store.entities :
                          MatchesEntityKey(e, "PropertyGraphIngestor", entity,
                                           ingests[r].self_knowledge_base,
                                           ingests[r].file)
                    /\ \A d \in entity.doc_ids : <<entity.id, d>> \in store.belongs_to

\* the entity nodes ingest call r wrote: those with the ids it drew
WrittenBy(r) == {e \in store.entities : e.id \in IdsOf(ingests[r].entities)}

\* C26: every entity node a PropertyGraphIngestor.ingest call wrote carries
\* the id of the knowledge base passed to that call and the id of its file,
\* also when the ingestor was used for other calls before.
C26_NodesCarryKnowledgeBaseOfCall ==
    \A r \in 1..Len(ingests) :
        ingests[r].ingestor = "PropertyGraphIngestor" =>
            \A e \in WrittenBy(r) :
                /\ e.knowledge_base_id = Some(ingests[r].call.knowledge_base)
                /\ e.source_id = ingests[r].file

\* the part of C26 about the file
C26_NodesCarrySourceOfCall ==
    \A r \in 1..Len(ingests) :
        \A e \in WrittenBy(r) : e.source_id = ingests[r].file

\* the source files of the members of community c
MemberFiles(g, c) ==
    {e.source_id : e \in {x \in g.entities : <<x.id, c.id>> \in g.in_community}}

\* C13: Community nodes made for different source files have different ids,
\* and no Community node has members of two different source files.
C13_CommunitiesPerFile ==
    /\ \A c1, c2 \in store.communities :
          c1.source_id # c2.source_id => c1.id # c2.id
    /\ \A c \in store.communities : MemberFiles(store, c) \subseteq {c.source_id}

(***************************************************************************)
(* Properties of the KnowledgeBaseService.                                 *)
(***************************************************************************)
\* the nodes of the graph that have the given id
NodesWithId(graph, id) == {k \in 1..Len(graph) : graph[k].id = id}

\* what the last call, an upsert, did to the nodes: a node created with
\* createdAt when the id was absent, else the nodes of the id updated with
\* updatedAt and their createdAt kept; the other nodes are as they were
UpsertedAsClaimed ==
    LET kb == lastCall.argument
        before == lastCall.before
        old == NodesWithId(before, kb.id)
    IN  /\ old = {} =>
              /\ Len(kbNodes) = Len(before) + 1
              /\ NodesWithId(kbNodes, kb.id) = {Len(kbNodes)}
              /\ kbNodes[Len(kbNodes)].createdAt = clock
              /\ kbNodes[Len(kbNodes)].updatedAt = 0
        /\ old # {} =>
              /\ Len(kbNodes) = Len(before)
              /\ \A k \in old : /\ kbNodes[k].updatedAt = clock
                                /\ kbNodes[k].createdAt = before[k].createdAt
        /\ \A k \in 1..Len(before) : k \notin old => kbNodes[k] = before[k]

\* C25: upsert creates the record when the id is absent (createdAt set) and
\* updates it when the id is present (updatedAt set, createdAt kept); after
\* it get_by_id of the id returns a KnowledgeBase equal in every field to the
\* one upserted; get_by_id of an id never stored returns None.
C25_UpsertThenGetById ==
    /\ lastCall.method = "upsert" =>
          /\ UpsertedAsClaimed
          /\ GetById(kbNodes, lastCall.argument.id) = {Some(lastCall.argument)}
    /\ lastCall.method = "get_by_id" /\ NodesWithId(kbNodes, lastCall.argument) = {} =>
          lastCall.result = None

\* an upsert of a stored id that changed the name, the description and the
\* ontology of the record
C25_Witness ==
    /\ lastCall.method = "upsert"
    /\ \E k \in NodesWithId(lastCall.before, lastCall.argument.id) :
          /\ lastCall.before[k].name # lastCall.argument.name
          /\ lastCall.before[k].ontology = None
          /\ lastCall.argument.ontology # None

\* C30: after any sequence of create and upsert calls there is at most one
\* KnowledgeBase node per id, so get_by_id has one possible result.
C30_OneRecordPerId ==
    \A id \in KbIds :
        /\ Cardinality(NodesWithId(kbNodes, id)) <= 1
        /\ Cardinality(GetById(kbNodes, id)) = 1

\* what upsert alone keeps: it never adds a node for an id that has one
C30_UpsertAddsNoDuplicate ==
    lastCall.method = "upsert" /\ NodesWithId(lastCall.before, lastCall.argument.id) # {}
        => Len(kbNodes) = Len(lastCall.before)

\* the calls that returned or raised
Ended == {r \in 1..Len(ingests) : ingests[r].pc \in {"done", "raised"}}

\* the only call made for its file
OnlyCallOfFile(r) ==
    \A q \in 1..Len(ingests) : ingests[q].file = ingests[r].file => q = r

\* C21: after an ingest with summarization enabled in which every call of the
\* language model and the embedding call succeeded, every Community node of
\* the file has a summary and an embedding, a community without a
\* relationship between its members included
C21_EveryCommunitySummarized ==
    \A r \in 1..Len(ingests) :
        /\ ingests[r].ingestor = "PropertyGraphIngestor"
        /\ ingests[r].call.extract_community_summaries
        /\ ingests[r].pc = "done"
        /\ ingests[r].community_summaries = ingests[r].community_data
        /\ OnlyCallOfFile(r)
        => \A c \in store.communities :
              c.source_id = ingests[r].file =>
                  c.summary # None /\ c.embedding # None

\* the communities the read of _generate_community_summaries returns are all
\* written with a summary and an embedding when no call failed
C21_LinkedCommunitiesSummarized ==
    \A r \in 1..Len(ingests) :
        /\ ingests[r].ingestor = "PropertyGraphIngestor"
        /\ ingests[r].pc = "done"
        /\ ingests[r].community_summaries = ingests[r].community_data
        => \A c \in store.communities :
              c.id \in ingests[r].community_data =>
                  c.summary # None /\ c.embedding # None

\* C22: when the community detection of a call has ended, by returning or by
\* raising, the projection 'kg' is no longer in the catalog: with one call at
\* a time the projection exists only between the first and the second query
C22_ProjectionGoneWhenStepEnds ==
    (\A r \in 1..Len(ingests) : ingests[r].pc # "drop") => ~store.projected

\* the projection is gone once the detection query and the drop have returned
C22_ProjectionGoneWhenQueriesReturn ==
    (\A r \in 1..Len(ingests) :
        ingests[r].pc # "drop" /\ ingests[r].error # "LeidenError")
    => ~store.projected

\* C27: once every call has returned, every IN_COMMUNITY edge of a node of a
\* file other than the last ingested one joins the node to the Community
\* whose id is the node's community_id
C27_OtherFilesKeepCommunity ==
    (ingests # <<>> /\ \A r \in 1..Len(ingests) : ingests[r].pc = "done")
    => \A e \in store.entities :
          e.source_id # ingests[Len(ingests)].file =>
              \A edge \in store.in_community :
                  edge[1] = e.id => e.community_id = Some(edge[2])

\* the same for the nodes of the file that was ingested last, when it was
\* ingested once
C27_LastFileKeepsCommunity ==
    (ingests # <<>> /\ \A r \in 1..Len(ingests) : ingests[r].pc = "done")
    => \A e \in store.entities :
          e.source_id = ingests[Len(ingests)].file /\ OnlyCallOfFile(Len(ingests)) =>
              \A edge \in store.in_community :
                  edge[1] = e.id => e.community_id = Some(edge[2])

\* a relationship as the summarizer is claimed to describe it: each end by
\* its own labels and properties
DescribedByOwnEnds(g, r) ==
    [source |-> [labels |-> {EntityWithId(g, r.source_id).label},
                 properties |-> CleanProperties(EntityWithId(g, r.source_id))],
     relationship |-> r.relationship,
     target |-> [labels |-> {EntityWithId(g, r.target_id).label},
                 properties |-> CleanProperties(EntityWithId(g, r.target_id))]]

\* a record without the properties of its target
WithoutTargetProperties(record) ==
    [source |-> record.source, relationship |-> record.relationship,
     target_labels |-> record.target.labels]

\* C23: for each community the summarizer passes to the language model
\* exactly the relationships between two members of the community, each
\* with its source described by the source's labels and properties and its
\* target by the target's labels and properties
C23_TripletsDescribeOwnEnds ==
    \A r \in 1..Len(ingests) :
        ingests[r].pc = "summarize" =>
            \A c \in ingests[r].community_data :
                ingests[r].community_triplets[c] =
                    {DescribedByOwnEnds(store, rel) :
                        rel \in InternalRelationships(store, c)}

\* the records are those of the relationships between members, right in
\* everything but the properties of the target
C23_TripletsRightButForTarget ==
    \A r \in 1..Len(ingests) :
        ingests[r].pc = "summarize" =>
            \A c \in ingests[r].community_data :
                {WithoutTargetProperties(t) : t \in ingests[r].community_triplets[c]} =
                    {WithoutTargetProperties(DescribedByOwnEnds(store, rel)) :
                        rel \in InternalRelationships(store, c)}

\* a SIMILAR edge of the graph between the chunks of the given edge
SamePair(e1, e2) == e1.from = e2.from /\ e1.to = e2.to

\* C24: there is at most one SIMILAR edge per ordered pair of chunks, and an
\* edge once created stays with the score it was created with: merging the
\* pair again adds no edge and changes no score
C24_OneSimilarEdgeWithFirstScore ==
    /\ [](\A e1, e2 \in store.similar : SamePair(e1, e2) => e1 = e2)
    /\ [][\A e \in store.similar : e \in store'.similar]_vars

\* a call has merged a pair that had an edge, with another score
C24_Witness ==
    \E r \in 1..Len(ingests) :
        /\ ingests[r].pc = "done"
        /\ \E e \in ingests[r].edges :
             \E old \in store.similar :
                 /\ SamePair(e, old)
                 /\ e.score # old.score
                 /\ old \in UNION {ingests[q].edges : q \in 1..(r - 1)}

\* the ids of the entity nodes of the graph
EntityNodeIds == {e.id : e \in store.entities}

\* the call has written a relationship edge of its triplets
WroteRelationship(r) ==
    \E k \in 1..Len(ingests[r].triplets) :
        ingests[r].triplets[k] \in store.relationships

====
